---------------------------- MODULE Spec2Model ----------------------------
(***************************************************************************)
(* ReSTIR DI resampling engine of HIPRT-Path-Tracer.                       *)
(*                                                                         *)
(* The module holds several state machines over one set of variables:     *)
(*   Spec          one worker of the spatial reuse kernel                  *)
(*                 (ReSTIR_DI_SpatialReuse), iteration by iteration        *)
(*   SpecGrid      the launch grid of a frame's passes and the buffers     *)
(*                 each worker reads and writes                            *)
(*   SpecIndex     the spatial neighbor-index functions                    *)
(*   SpecHeur      the neighbor similarity heuristics                      *)
(*   SpecTemporal  the temporal neighbor search                            *)
(*   SpecNorm      the bias-correction normalization functions             *)
(* Floats are exact rationals <<n, d>>; d = 0 encodes the non-finite       *)
(* values (<<1,0>> = +inf, <<-1,0>> = -inf, <<0,0>> = NaN).                *)
(***************************************************************************)
EXTENDS Integers, Sequences, FiniteSets, TLC

(***************************************************************************)
(* Bounds of the model.                                                    *)
(***************************************************************************)
MaxReuse == 1
MaxM == 2
MaxMCap == 2
MaxPasses == 2
MaxRadius == 1
MaxMeasure == 2
MaxSearch == 1
MaxJitter == 1

(***************************************************************************)
(* Float arithmetic.                                                       *)
(***************************************************************************)
Abs(a) == IF a < 0 THEN -a ELSE a

Sgn(a) == IF a < 0 THEN -1 ELSE IF a > 0 THEN 1 ELSE 0

Max(a, b) == IF a < b THEN b ELSE a

Min(a, b) == IF b < a THEN b ELSE a

RECURSIVE GCD(_, _)
GCD(a, b) == IF b = 0 THEN a ELSE GCD(b, a % b)

RNorm(n, d) ==
    IF d = 0 THEN <<Sgn(n), 0>>
    ELSE LET g == GCD(Abs(n), Abs(d))
             s == Sgn(n) * Sgn(d)
         IN  <<s * (Abs(n) \div g), Abs(d) \div g>>

R(n) == <<n, 1>>

Zero == R(0)

One == R(1)

MinusOne == R(-1)

IsNaN(a) == a = <<0, 0>>

IsFinite(a) == a[2] # 0

RAdd(a, b) ==
    IF IsFinite(a) /\ IsFinite(b) THEN RNorm(a[1] * b[2] + b[1] * a[2], a[2] * b[2])
    ELSE IF IsNaN(a) \/ IsNaN(b) THEN <<0, 0>>
    ELSE IF ~IsFinite(a) /\ ~IsFinite(b) THEN (IF a = b THEN a ELSE <<0, 0>>)
    ELSE IF IsFinite(a) THEN b ELSE a

RMul(a, b) ==
    IF IsNaN(a) \/ IsNaN(b) THEN <<0, 0>>
    ELSE IF IsFinite(a) /\ IsFinite(b) THEN RNorm(a[1] * b[1], a[2] * b[2])
    ELSE <<Sgn(a[1]) * Sgn(b[1]), 0>>

\* a / b as IEEE-754 does it: x/0 is an infinity, 0/0 is NaN.
RDiv(a, b) ==
    IF IsNaN(a) \/ IsNaN(b) THEN <<0, 0>>
    ELSE IF IsFinite(a) /\ IsFinite(b) THEN RNorm(a[1] * b[2], a[2] * b[1])
    ELSE IF ~IsFinite(a) /\ ~IsFinite(b) THEN <<0, 0>>
    ELSE IF IsFinite(a) THEN Zero
    ELSE <<a[1] * (IF b[1] < 0 THEN -1 ELSE 1), 0>>

\* a < b; every comparison with NaN is false.
RLess(a, b) ==
    IF IsNaN(a) \/ IsNaN(b) THEN FALSE
    ELSE IF IsFinite(a) /\ IsFinite(b) THEN a[1] * b[2] < b[1] * a[2]
    ELSE IF ~IsFinite(a) /\ ~IsFinite(b) THEN a[1] < b[1]
    ELSE IF IsFinite(a) THEN b[1] > 0
    ELSE a[1] < 0

RLeq(a, b) == (~IsNaN(a) /\ ~IsNaN(b)) /\ (a = b \/ RLess(a, b))

RECURSIVE SumUpTo(_, _)
SumUpTo(f, n) == IF n < 0 THEN 0 ELSE f[n] + SumUpTo(f, n - 1)

(***************************************************************************)
(* Bias-correction modes (KernelOptions.h).                                *)
(***************************************************************************)
RESTIR_DI_BIAS_CORRECTION_1_OVER_M == 0
RESTIR_DI_BIAS_CORRECTION_1_OVER_Z == 1
RESTIR_DI_BIAS_CORRECTION_MIS_LIKE == 2
RESTIR_DI_BIAS_CORRECTION_MIS_LIKE_CONFIDENCE_WEIGHTS == 3
RESTIR_DI_BIAS_CORRECTION_MIS_GBH == 4
RESTIR_DI_BIAS_CORRECTION_MIS_GBH_CONFIDENCE_WEIGHTS == 5

BiasCorrectionModes == RESTIR_DI_BIAS_CORRECTION_1_OVER_M .. RESTIR_DI_BIAS_CORRECTION_MIS_GBH_CONFIDENCE_WEIGHTS

(***************************************************************************)
(* Samples and reservoirs.  A sample is identified by the pixel of the     *)
(* input buffer it was read from (id), its kind, and its cached score.     *)
(***************************************************************************)
NoSample == [id |-> -1, kind |-> "none", target_function |-> 0]

\* A default-constructed reservoir.
EmptyReservoir == [sample |-> NoSample, weight_sum |-> Zero, M |-> 0, UCW |-> Zero]

\* Reservoirs an earlier pass can have left at pixel p of the input buffer:
\* without a sample, with a triangle sample (valid, or marked occluded by the
\* visibility reuse pass), with an environment-map sample.  The cached score
\* of a sample at its own pixel is 1.
InputReservoirs(p) ==
    {[sample |-> NoSample, weight_sum |-> Zero, M |-> 1, UCW |-> Zero]}
    \cup {[sample |-> [id |-> p, kind |-> "triangle", target_function |-> 1],
           weight_sum |-> One, M |-> m, UCW |-> One] : m \in {1, MaxM}}
    \cup {[sample |-> [id |-> p, kind |-> "triangle", target_function |-> 1],
           weight_sum |-> One, M |-> MaxM, UCW |-> MinusOne]}
    \cup {[sample |-> [id |-> p, kind |-> "envmap", target_function |-> 1],
           weight_sum |-> One, M |-> 1, UCW |-> One]}

\* The ways to read, for the first time, the input reservoirs of `pixels`.
InputExtensions(pixels, input) ==
    {ext \in [pixels \ DOMAIN input -> UNION {InputReservoirs(p) : p \in pixels}] :
        \A p \in DOMAIN ext : ext[p] \in InputReservoirs(p)}

\* Random numbers a generator hands out, in [0, 1).
Draws == {Zero, <<1, 2>>}

(***************************************************************************)
(* Reservoir operations (ReservoirCombiner).                               *)
(***************************************************************************)
CombineWith(self, candidate, mis_weight, target_function, jacobian, u) ==
    IF RLess(jacobian, Zero) \/ RLeq(candidate.UCW, Zero)
    THEN [r |-> [self EXCEPT !.M = @ + candidate.M], replaced |-> FALSE, w |-> Zero,
          drew |-> FALSE]
    ELSE LET w == RMul(RMul(RMul(R(target_function), candidate.UCW), jacobian), mis_weight)
             ws == RAdd(self.weight_sum, w)
             take == RLess(RMul(u, ws), w)
         IN  [r |-> [sample |-> IF take
                                THEN [candidate.sample EXCEPT !.target_function = target_function]
                                ELSE self.sample,
                     weight_sum |-> ws,
                     M |-> self.M + candidate.M,
                     UCW |-> self.UCW],
              replaced |-> take, w |-> w, drew |-> TRUE]

EndNormalized(self, nume, denom) ==
    IF RLeq(denom, Zero) \/ self.sample.target_function = 0
    THEN [self EXCEPT !.UCW = Zero]
    ELSE [self EXCEPT !.UCW = RDiv(RMul(self.weight_sum, nume),
                                   RMul(denom, R(self.sample.target_function)))]

SanityCheck(self) ==
    IF IsFinite(self.UCW) /\ IsFinite(self.weight_sum) THEN self
    ELSE [self EXCEPT !.UCW = Zero, !.weight_sum = Zero]


(***************************************************************************)
(* Neighbor locations.                                                     *)
(***************************************************************************)
\* The integer offsets a point sampled in the disk of the given radius,
\* rotated about the center and truncated toward zero, can land on.
DiskOffsets(radius) ==
    {o \in (-radius..radius) \X (-radius..radius) : o[1] * o[1] + o[2] * o[2] <= radius * radius}

\* get_neighbor_pixel_index of the spatial reuse kernel; offset is the rotated,
\* truncated disk offset of this neighbor ordinal.
GetNeighborPixelIndex(neighbor_number, neighbor_reuse_count, center, res, offset) ==
    IF neighbor_number = neighbor_reuse_count
    THEN center[1] + center[2] * res[1]
    ELSE LET nx == center[1] + offset[1]
             ny == center[2] + offset[2]
         IN  IF nx < 0 \/ nx >= res[1] \/ ny < 0 \/ ny >= res[2]
             THEN -1
             ELSE nx + ny * res[1]

(***************************************************************************)
(* Target function.  The scene answers, for one sample seen from one       *)
(* surface, with a score (the cosine at the surface and the luminance of   *)
(* BSDF * emission) and, when a shadow ray is traced, with its occlusion.  *)
(* Both are keyed by <<sample id, pixel of the surface>>.                  *)
(***************************************************************************)
SurfaceScores == {[cos |-> 0, lum |-> 1], [cos |-> 1, lum |-> 2]}

\* A reservoir's own sample seen from its own surface has the cached score.
ScoresFor(key) ==
    IF key[1] = key[2] THEN {[cos |-> 1, lum |-> 1]} ELSE SurfaceScores

ScoreExtensions(keys, scores) ==
    {ext \in [keys \ DOMAIN scores -> SurfaceScores \cup {[cos |-> 1, lum |-> 1]}] :
        \A k \in DOMAIN ext : ext[k] \in ScoresFor(k)}

\* ReSTIR_DI_evaluate_target_function<KERNEL_OPTION_FALSE>.
TargetFunctionNoVisibility(sample, e) ==
    IF sample.kind = "none" THEN 0
    ELSE LET cosine_term == Max(0, e.cos)
         IN  IF cosine_term = 0 THEN 0
             ELSE e.lum * cosine_term

\* Does ReSTIR_DI_evaluate_target_function<withVisibility> trace its shadow ray?
TracesShadowRay(withVisibility, sample, e) ==
    withVisibility /\ TargetFunctionNoVisibility(sample, e) # 0

\* The keys among `keys` for which evaluating the sample traces a shadow ray.
RayKeys(withVisibility, sample, keys, scores) ==
    {k \in keys : TracesShadowRay(withVisibility, sample, scores[k])}

RayExtensions(keys, rays) == [keys \ DOMAIN rays -> BOOLEAN]

\* ReSTIR_DI_evaluate_target_function<withVisibility>.
EvaluateTargetFunction(withVisibility, sample, key, scores, rays) ==
    IF sample.kind = "none" THEN 0
    ELSE LET target_function == TargetFunctionNoVisibility(sample, scores[key])
         IN  IF target_function = 0 THEN 0
             ELSE IF withVisibility
                  THEN (IF rays[key] THEN 0 ELSE target_function)
                  ELSE target_function

(***************************************************************************)
(* Reconnection shift jacobian.                                            *)
(***************************************************************************)
\* Values of cosine_ratio * distance_squared_ratio the geometry can produce.
RawJacobians == {<<1, 40>>, R(2)}

JacobianClamp == 20

\* The clamp test without its isNaN disjunct.
GetJacobianDeterminantWithoutNaNTest(jacobian) ==
    IF RLess(R(JacobianClamp), jacobian) \/ RLess(jacobian, RNorm(1, JacobianClamp))
    THEN MinusOne
    ELSE jacobian

GetJacobianDeterminantReconnectionShift(jacobian) ==
    IF RLess(R(JacobianClamp), jacobian) \/ RLess(jacobian, RNorm(1, JacobianClamp))
       \/ IsNaN(jacobian)
    THEN MinusOne
    ELSE jacobian

(***************************************************************************)
(* Spatial reuse kernel: MIS weights and normalization.                    *)
(***************************************************************************)
IsGBH(mode) ==
    mode \in {RESTIR_DI_BIAS_CORRECTION_MIS_GBH, RESTIR_DI_BIAS_CORRECTION_MIS_GBH_CONFIDENCE_WEIGHTS}

ValidOrdinals(count, idxOf) == {j \in 0..count : idxOf[j] # -1}

\* The input reservoirs get_spatial_reuse_resampling_MIS_weight reads.
MISWeightReads(mode, count, idxOf) ==
    IF mode = RESTIR_DI_BIAS_CORRECTION_MIS_GBH_CONFIDENCE_WEIGHTS
    THEN {idxOf[j] : j \in ValidOrdinals(count, idxOf)}
    ELSE {}

\* The <<sample, surface>> pairs get_spatial_reuse_resampling_MIS_weight evaluates.
MISWeightKeys(mode, sample, count, idxOf) ==
    IF IsGBH(mode) THEN {<<sample.id, idxOf[j]>> : j \in ValidOrdinals(count, idxOf)}
    ELSE {}

\* get_spatial_reuse_resampling_MIS_weight, were it to leave the confidence M
\* out of the generalized balance heuristic.
GetSpatialReuseResamplingMISWeightWithoutM(mode, biasVis, neighbor_reservoir, current_neighbor, count, idxOf, input, scores, rays) ==
    IF mode \in {RESTIR_DI_BIAS_CORRECTION_1_OVER_M, RESTIR_DI_BIAS_CORRECTION_1_OVER_Z}
    THEN R(neighbor_reservoir.M)
    ELSE IF mode \in {RESTIR_DI_BIAS_CORRECTION_MIS_LIKE,
                      RESTIR_DI_BIAS_CORRECTION_MIS_LIKE_CONFIDENCE_WEIGHTS}
    THEN One
    ELSE LET term == [j \in 0..count |->
                        IF idxOf[j] = -1 THEN 0
                        ELSE EvaluateTargetFunction(biasVis, neighbor_reservoir.sample,
                                                    <<neighbor_reservoir.sample.id, idxOf[j]>>,
                                                    scores, rays)]
             denom == SumUpTo(term, count)
             nume == term[current_neighbor]
         IN  IF denom = 0 THEN Zero ELSE RNorm(nume, denom)

\* get_spatial_reuse_resampling_MIS_weight, were its denominator to leave the
\* confidence M out while its numerator keeps it.
GetSpatialReuseResamplingMISWeightOverPlainSum(mode, biasVis, neighbor_reservoir, current_neighbor, count, idxOf, input, scores, rays) ==
    IF mode \in {RESTIR_DI_BIAS_CORRECTION_1_OVER_M, RESTIR_DI_BIAS_CORRECTION_1_OVER_Z}
    THEN R(neighbor_reservoir.M)
    ELSE IF mode \in {RESTIR_DI_BIAS_CORRECTION_MIS_LIKE,
                      RESTIR_DI_BIAS_CORRECTION_MIS_LIKE_CONFIDENCE_WEIGHTS}
    THEN One
    ELSE LET plain == [j \in 0..count |->
                        IF idxOf[j] = -1 THEN 0
                        ELSE EvaluateTargetFunction(biasVis, neighbor_reservoir.sample,
                                                    <<neighbor_reservoir.sample.id, idxOf[j]>>,
                                                    scores, rays)]
             denom == SumUpTo(plain, count)
             nume == plain[current_neighbor]
                     * (IF mode = RESTIR_DI_BIAS_CORRECTION_MIS_GBH_CONFIDENCE_WEIGHTS
                           /\ idxOf[current_neighbor] # -1
                        THEN input[idxOf[current_neighbor]].M ELSE 1)
         IN  IF denom = 0 THEN Zero ELSE RNorm(nume, denom)

\* get_spatial_reuse_resampling_MIS_weight.
GetSpatialReuseResamplingMISWeight(mode, biasVis, neighbor_reservoir, current_neighbor, count, idxOf, input, scores, rays) ==
    IF mode \in {RESTIR_DI_BIAS_CORRECTION_1_OVER_M, RESTIR_DI_BIAS_CORRECTION_1_OVER_Z}
    THEN R(neighbor_reservoir.M)
    ELSE IF mode \in {RESTIR_DI_BIAS_CORRECTION_MIS_LIKE,
                      RESTIR_DI_BIAS_CORRECTION_MIS_LIKE_CONFIDENCE_WEIGHTS}
    THEN One
    ELSE LET term == [j \in 0..count |->
                        IF idxOf[j] = -1 THEN 0
                        ELSE EvaluateTargetFunction(biasVis, neighbor_reservoir.sample,
                                                    <<neighbor_reservoir.sample.id, idxOf[j]>>,
                                                    scores, rays)
                             * (IF mode = RESTIR_DI_BIAS_CORRECTION_MIS_GBH_CONFIDENCE_WEIGHTS
                                THEN input[idxOf[j]].M ELSE 1)]
             denom == SumUpTo(term, count)
             nume == term[current_neighbor]
         IN  IF denom = 0 THEN Zero ELSE RNorm(nume, denom)

\* Is the reservoir invalid at normalization time (the early return)?
NormalizationShortCircuitsBelowZero(weight_sum) == RLess(weight_sum, Zero)

NormalizationShortCircuits(weight_sum) == RLeq(weight_sum, Zero)

\* Does the normalization run its loop over the neighbors?  The generalized
\* balance heuristic modes have nothing left to normalize.
NormalizationRunsLoop(mode, weight_sum) ==
    /\ ~NormalizationShortCircuits(weight_sum)
    /\ ~IsGBH(mode)

\* The <<sample, surface>> pairs the kernel's normalization evaluates.
NormalizationKeys(mode, new_res, count, idxOf) ==
    IF NormalizationRunsLoop(mode, new_res.weight_sum)
       /\ mode # RESTIR_DI_BIAS_CORRECTION_1_OVER_M
    THEN {<<new_res.sample.id, idxOf[j]>> : j \in ValidOrdinals(count, idxOf)}
    ELSE {}

\* The value returned without looping.
NoNormalization == [nume |-> One, denom |-> One, visited |-> {}, evals |-> 0]

\* The accumulators before the loop.  visited: the neighbor ordinals whose
\* index was asked for; evals: the target functions evaluated.
NormalizationStart(mode) ==
    [nume |-> IF mode \in {RESTIR_DI_BIAS_CORRECTION_1_OVER_M,
                           RESTIR_DI_BIAS_CORRECTION_1_OVER_Z} THEN One ELSE Zero,
     denom |-> Zero, visited |-> {}, evals |-> 0]

\* One iteration of the normalization loop.  variant "kernel" is the function
\* of the spatial reuse kernel, "struct" is
\* ReSTIRDISpatialNormalizationWeight::get_normalization, which also asks the
\* similarity heuristics (admitted).  tf is the target function of the final
\* sample at the neighbor, M the neighbor's confidence.
NormalizationVisit(variant, mode, acc, neighbor, selected, neighbor_pixel_index, admitted, tf, M) ==
    LET v == [acc EXCEPT !.visited = @ \cup {neighbor}] IN
    IF neighbor_pixel_index = -1 THEN v
    ELSE IF variant = "struct" /\ ~admitted THEN v
    ELSE IF mode = RESTIR_DI_BIAS_CORRECTION_1_OVER_M
    THEN [v EXCEPT !.denom = RAdd(@, R(M))]
    ELSE LET e == [v EXCEPT !.evals = @ + 1] IN
         IF ~(tf > 0) THEN e
         ELSE IF mode = RESTIR_DI_BIAS_CORRECTION_1_OVER_Z
         THEN [e EXCEPT !.denom = RAdd(@, R(M))]
         ELSE IF mode = RESTIR_DI_BIAS_CORRECTION_MIS_LIKE
         THEN [e EXCEPT !.nume = IF neighbor = selected THEN RAdd(@, R(tf)) ELSE @,
                        !.denom = RAdd(@, R(tf))]
         ELSE [e EXCEPT !.nume = IF neighbor = selected
                                 THEN RAdd(@, R(IF variant = "kernel" THEN tf * M ELSE tf))
                                 ELSE @,
                        !.denom = RAdd(@, R(tf * M))]

RECURSIVE NormalizationLoop(_, _, _, _, _, _, _, _)
NormalizationLoop(mode, acc, neighbor, selected, count, idxOf, tf, m) ==
    IF ~(neighbor < count + 1) THEN acc
    ELSE NormalizationLoop(mode,
             NormalizationVisit("kernel", mode, acc, neighbor, selected, idxOf[neighbor],
                                TRUE, tf[neighbor], m[neighbor]),
             neighbor + 1, selected, count, idxOf, tf, m)

\* get_spatial_reuse_normalization_denominator_numerator.
GetSpatialReuseNormalization(mode, biasVis, new_res, selected, count, idxOf, input, scores, rays) ==
    IF ~NormalizationRunsLoop(mode, new_res.weight_sum) THEN NoNormalization
    ELSE LET tf == [j \in 0..count |->
                      IF idxOf[j] = -1 \/ mode = RESTIR_DI_BIAS_CORRECTION_1_OVER_M THEN 0
                      ELSE EvaluateTargetFunction(biasVis, new_res.sample,
                                                  <<new_res.sample.id, idxOf[j]>>, scores, rays)]
             m == [j \in 0..count |->
                      IF idxOf[j] = -1 THEN 0
                      ELSE IF mode # RESTIR_DI_BIAS_CORRECTION_1_OVER_M /\ ~(tf[j] > 0) THEN 0
                      ELSE input[idxOf[j]].M]
         IN  NormalizationLoop(mode, NormalizationStart(mode), 0, selected, count, idxOf, tf, m)

\* spatial_visibility_reuse; occluded is what its shadow ray reports.
SpatialVisibilityReuse(reservoir, occluded) ==
    IF reservoir.UCW = Zero THEN reservoir
    ELSE IF occluded THEN [reservoir EXCEPT !.UCW = Zero]
    ELSE reservoir

\* The M-cap at the end of the pass.
MCapIgnored(m_cap, reservoir) == reservoir

MCap(m_cap, reservoir) ==
    IF m_cap > 0 THEN [reservoir EXCEPT !.M = Min(m_cap, reservoir.M)] ELSE reservoir

(***************************************************************************)
(* One worker of the spatial reuse kernel (ReSTIR_DI_SpatialReuse).        *)
(*   cfg        launch parameters and settings of the worker               *)
(*   offsets    rotated disk offset of every neighbor ordinal              *)
(*   input      the input reservoirs the worker has read so far            *)
(*   scores, rays, jacobians   what the scene has answered so far          *)
(*   log        one record per loop iteration, in execution order          *)
(*   norm       result of the normalization function                       *)
(*   tail       what the end of the kernel read and did                    *)
(*   output     the slots of the output buffer the worker has written      *)
(***************************************************************************)
VARIABLES pc, cfg, offsets, input, scores, rays, jacobians, new_reservoir,
          neighbor, selected_neighbor, log, norm, tail, output

kvars == <<pc, cfg, offsets, input, scores, rays, jacobians, new_reservoir,
           neighbor, selected_neighbor, log, norm, tail, output>>

NoFunction == <<>>

NoNorm == [nume |-> One, denom |-> One, visited |-> {}, evals |-> 0, weight_sum |-> Zero]

NoTail == [m_cap |-> 0, doVisibilityReuse |-> FALSE, number_of_passes |-> 0,
           preCapM |-> 0, cappedM |-> 0, visibility |-> "none"]

\* Resolution of the frame the modelled worker runs in.
KernelRes == <<1, 2>>

\* Threads of the launch grid that covers KernelRes: one column beyond the
\* frame stands for the threads of a partially filled tile.
\* The 1/M mode never reads the bias-correction visibility option.
KernelConfigs ==
    {c \in [res : {KernelRes}, x : 0..KernelRes[1], y : 0..(KernelRes[2] - 1),
            mode : BiasCorrectionModes, reuse : 0..MaxReuse, radius : {1},
            targetVis : {FALSE}, biasVis : BOOLEAN] :
        c.mode = RESTIR_DI_BIAS_CORRECTION_1_OVER_M => ~c.biasVis}

\* The offsets of the neighbors of a worker: the frame is one pixel wide, so an
\* offset to the right leaves the viewport as one to the left of the frame's
\* column does.
KernelOffsets(radius) == {o \in DiskOffsets(radius) : o[1] <= 0}

center_pixel_coords == <<cfg.x, cfg.y>>

center_pixel_index == cfg.x + cfg.y * cfg.res[1]

\* Neighbor ordinal -> pixel index, as get_neighbor_pixel_index answers.
idxOf ==
    [j \in 0..cfg.reuse |->
        GetNeighborPixelIndex(j, cfg.reuse, center_pixel_coords, cfg.res, offsets[j])]

\* The kernel's early return.
KernelGuard(index, res) == index >= res[1] * res[2]

KernelInit ==
    /\ pc = "start"
    /\ cfg \in KernelConfigs
    /\ offsets = NoFunction
    /\ input = NoFunction
    /\ scores = NoFunction
    /\ rays = NoFunction
    /\ jacobians = NoFunction
    /\ new_reservoir = EmptyReservoir
    /\ neighbor = 0
    /\ selected_neighbor = 0
    /\ log = <<>>
    /\ norm = NoNorm
    /\ tail = NoTail
    /\ output = NoFunction

\* Kernel entry: the early return, then the rotation is drawn, which fixes the
\* offset of every neighbor ordinal but the last.
KernelEnter ==
    /\ pc = "start"
    /\ IF KernelGuard(center_pixel_index, cfg.res)
       THEN /\ pc' = "returned"
            /\ UNCHANGED offsets
       ELSE /\ pc' = "loop"
            /\ \E o \in [0..cfg.reuse -> KernelOffsets(cfg.radius)] :
                  /\ o[cfg.reuse] = <<0, 0>>
                  /\ offsets' = o
    /\ UNCHANGED <<cfg, input, scores, rays, jacobians, new_reservoir, neighbor,
                   selected_neighbor, log, norm, tail, output>>

\* The loop's increment.
NextNeighborSkipping(n) == n + 2

NextNeighbor(n) == n + 1

\* Does the loop take the "nothing to do here" branch for this reservoir?
IsEmptyReservoir(neighbor_reservoir) == neighbor_reservoir.UCW = Zero

\* The "nothing to do here" branch: only the neighbor's M is taken into account.
SkipEmptyNeighborDroppingM(reservoir, neighbor_reservoir) == reservoir

SkipEmptyNeighbor(reservoir, neighbor_reservoir) ==
    [reservoir EXCEPT !.M = @ + neighbor_reservoir.M]

\* Is the reconnection jacobian computed for this neighbor?
ComputesJacobian(target_function_at_center, neighbor_reservoir, n, count) ==
    target_function_at_center > 0 /\ neighbor_reservoir.UCW # Zero /\ n # count

\* The branch taken when the jacobian is -1: the sample is rejected, its M kept.
RejectNeighborDroppingM(reservoir, neighbor_reservoir) == reservoir

RejectNeighbor(reservoir, neighbor_reservoir) ==
    [reservoir EXCEPT !.M = @ + neighbor_reservoir.M]

\* `if (combine_with(...)) selected_neighbor = neighbor;`
SelectNeighborAlways(replaced, n, selected) == n

SelectNeighbor(replaced, n, selected) == IF replaced THEN n ELSE selected

LogEntry(index, path, M, w, replaced, weighs, mis_weight) ==
    [neighbor |-> neighbor, index |-> index, path |-> path, M |-> M, w |-> w,
     replaced |-> replaced, weighs |-> weighs, mis_weight |-> mis_weight]

\* One iteration of the resampling loop.
KernelResample ==
    /\ pc = "loop"
    /\ neighbor < cfg.reuse + 1
    /\ neighbor' = NextNeighbor(neighbor)
    /\ LET neighbor_pixel_index == idxOf[neighbor]
           last == neighbor = cfg.reuse
       IN
       IF neighbor_pixel_index = -1
       THEN /\ log' = Append(log, LogEntry(-1, "invalid", 0, Zero, FALSE, FALSE, One))
            /\ UNCHANGED <<input, scores, rays, jacobians, new_reservoir, selected_neighbor>>
       ELSE
       \E i1 \in InputExtensions({neighbor_pixel_index}, input) :
       LET in1 == i1 @@ input
           neighbor_reservoir == in1[neighbor_pixel_index]
           sample == neighbor_reservoir.sample
       IN
       IF IsEmptyReservoir(neighbor_reservoir)
          THEN /\ new_reservoir' = SkipEmptyNeighbor(new_reservoir, neighbor_reservoir)
               /\ input' = in1
               /\ log' = Append(log, LogEntry(neighbor_pixel_index, "empty",
                                              neighbor_reservoir.M, Zero, FALSE, FALSE, One))
               /\ UNCHANGED <<scores, rays, jacobians, selected_neighbor>>
          ELSE
          \E e1 \in ScoreExtensions(IF last THEN {} ELSE {<<sample.id, center_pixel_index>>},
                                    scores) :
          LET sc1 == e1 @@ scores
              centerKey == <<sample.id, center_pixel_index>>
          IN
          \E r1 \in RayExtensions(IF last THEN {}
                                  ELSE RayKeys(cfg.targetVis, sample, {centerKey}, sc1), rays) :
          LET ry1 == r1 @@ rays
              target_function_at_center ==
                  IF last THEN sample.target_function
                  ELSE EvaluateTargetFunction(cfg.targetVis, sample, centerKey, sc1, ry1)
              computes == ComputesJacobian(target_function_at_center, neighbor_reservoir,
                                           neighbor, cfg.reuse)
          IN
          \E raw \in (IF ~computes THEN {One}
                      ELSE IF neighbor_pixel_index \in DOMAIN jacobians
                      THEN {jacobians[neighbor_pixel_index]}
                      ELSE RawJacobians) :
          LET jacobian_determinant ==
                  IF computes THEN GetJacobianDeterminantReconnectionShift(raw) ELSE One
          IN
          /\ jacobians' = IF computes THEN (neighbor_pixel_index :> raw) @@ jacobians
                          ELSE jacobians
          /\ IF computes /\ jacobian_determinant = MinusOne
             THEN /\ new_reservoir' = RejectNeighbor(new_reservoir, neighbor_reservoir)
                  /\ log' = Append(log, LogEntry(neighbor_pixel_index, "jacobian",
                                                 neighbor_reservoir.M, Zero, FALSE, FALSE,
                                                 One))
                  /\ input' = in1
                  /\ scores' = sc1
                  /\ rays' = ry1
                  /\ UNCHANGED selected_neighbor
             ELSE
             LET weighs == target_function_at_center > 0
                 misKeys == IF weighs THEN MISWeightKeys(cfg.mode, sample, cfg.reuse, idxOf)
                            ELSE {}
             IN
             \E i2 \in InputExtensions(IF weighs
                                        THEN MISWeightReads(cfg.mode, cfg.reuse, idxOf)
                                        ELSE {}, in1) :
             LET in2 == i2 @@ in1 IN
             \E e2 \in ScoreExtensions(misKeys, sc1) :
             LET sc2 == e2 @@ sc1 IN
             \E r2 \in RayExtensions(RayKeys(cfg.biasVis, sample, misKeys, sc2), ry1) :
             LET ry2 == r2 @@ ry1
                 mis_weight ==
                     IF weighs
                     THEN GetSpatialReuseResamplingMISWeight(cfg.mode, cfg.biasVis,
                              neighbor_reservoir, neighbor, cfg.reuse, idxOf, in2, sc2, ry2)
                     ELSE One
                 draws == CombineWith(new_reservoir, neighbor_reservoir, mis_weight,
                                      target_function_at_center, jacobian_determinant, Zero).drew
             IN
             \E u \in (IF draws THEN Draws ELSE {Zero}) :
             LET c == CombineWith(new_reservoir, neighbor_reservoir, mis_weight,
                                  target_function_at_center, jacobian_determinant, u)
             IN
             /\ new_reservoir' = SanityCheck(c.r)
             /\ selected_neighbor' = SelectNeighbor(c.replaced, neighbor, selected_neighbor)
             /\ log' = Append(log, LogEntry(neighbor_pixel_index, "combined",
                                            neighbor_reservoir.M, c.w, c.replaced, weighs,
                                            mis_weight))
             /\ input' = in2
             /\ scores' = sc2
             /\ rays' = ry2
    /\ UNCHANGED <<pc, cfg, offsets, norm, tail, output>>

\* The normalization function, end_normalized and the sanity check.
\* What the kernel does with the two outputs of the normalization.
NormalizeReservoirUnguarded(reservoir, nume, denom) ==
    [reservoir EXCEPT !.UCW = RDiv(RMul(reservoir.weight_sum, nume),
                                   RMul(denom, R(reservoir.sample.target_function)))]

NormalizeReservoir(reservoir, nume, denom) ==
    SanityCheck(EndNormalized(reservoir, nume, denom))

KernelNormalize ==
    /\ pc = "loop"
    /\ ~(neighbor < cfg.reuse + 1)
    /\ LET keys == NormalizationKeys(cfg.mode, new_reservoir, cfg.reuse, idxOf) IN
       \E e1 \in ScoreExtensions(keys, scores) :
       LET sc1 == e1 @@ scores IN
       \E r1 \in RayExtensions(RayKeys(cfg.biasVis, new_reservoir.sample, keys, sc1), rays) :
       LET ry1 == r1 @@ rays
           n == GetSpatialReuseNormalization(cfg.mode, cfg.biasVis, new_reservoir,
                    selected_neighbor, cfg.reuse, idxOf, input, sc1, ry1)
       IN
       /\ scores' = sc1
       /\ rays' = ry1
       /\ norm' = [nume |-> n.nume, denom |-> n.denom, visited |-> n.visited,
                    evals |-> n.evals, weight_sum |-> new_reservoir.weight_sum]
       /\ new_reservoir' = NormalizeReservoir(new_reservoir, n.nume, n.denom)
    /\ pc' = "finish"
    /\ UNCHANGED <<cfg, offsets, input, jacobians, neighbor, selected_neighbor, log, tail,
                   output>>

\* Does the kernel run its end-of-pass visibility reuse?
RunsVisibilityReuse(doVisibilityReuse, mode, number_of_passes) ==
    /\ doVisibilityReuse
    /\ mode = RESTIR_DI_BIAS_CORRECTION_1_OVER_Z
    /\ number_of_passes > 1

\* What the shadow ray of spatial_visibility_reuse can report: the ray toward a
\* triangle sample is the one the target function traces from the same surface;
\* the ray toward an environment-map sample is aimed at a position, not along
\* the sample's direction, and reports whatever lies there.
VisibilityRayAnswers(sample, key, rayMemo) ==
    IF sample.kind = "triangle" /\ key \in DOMAIN rayMemo THEN {rayMemo[key]}
    ELSE BOOLEAN

\* M-cap, end-of-pass visibility reuse, and the write of the output slot.
KernelFinish ==
    /\ pc = "finish"
    /\ \E m_cap \in {0, MaxMCap}, number_of_passes \in {1, MaxPasses},
          doVisibilityReuse \in (IF cfg.mode = RESTIR_DI_BIAS_CORRECTION_1_OVER_Z
                                 THEN BOOLEAN ELSE {TRUE}) :
       LET capped == MCap(m_cap, new_reservoir)
           runs == RunsVisibilityReuse(doVisibilityReuse, cfg.mode, number_of_passes)
           traces == runs /\ capped.UCW # Zero
           key == <<capped.sample.id, center_pixel_index>>
       IN
       \E occluded \in (IF traces THEN VisibilityRayAnswers(capped.sample, key, rays)
                        ELSE {FALSE}) :
       LET final == IF runs THEN SpatialVisibilityReuse(capped, occluded) ELSE capped IN
       /\ rays' = IF traces /\ capped.sample.kind = "triangle"
                  THEN (key :> occluded) @@ rays ELSE rays
       /\ tail' = [m_cap |-> m_cap, doVisibilityReuse |-> doVisibilityReuse,
                   number_of_passes |-> number_of_passes,
                   preCapM |-> new_reservoir.M, cappedM |-> capped.M,
                   visibility |-> IF ~runs THEN "none"
                                  ELSE IF ~traces THEN "returned"
                                  ELSE IF occluded THEN "occluded" ELSE "visible"]
       /\ new_reservoir' = final
       /\ output' = (center_pixel_index :> final) @@ output
    /\ pc' = "done"
    /\ UNCHANGED <<cfg, offsets, input, scores, jacobians, neighbor, selected_neighbor, log,
                   norm>>

\* The kernel's variables while another machine of the module runs.
KernelOff ==
    /\ pc = "off"
    /\ cfg = NoFunction
    /\ offsets = NoFunction
    /\ input = NoFunction
    /\ scores = NoFunction
    /\ rays = NoFunction
    /\ jacobians = NoFunction
    /\ new_reservoir = EmptyReservoir
    /\ neighbor = 0
    /\ selected_neighbor = 0
    /\ log = <<>>
    /\ norm = NoNorm
    /\ tail = NoTail
    /\ output = NoFunction

(***************************************************************************)
(* The passes of one frame over the launch grid.  A pass is one kernel     *)
(* launch; the launch returns when all its threads have.  The threads of a *)
(* spatial reuse pass run in any order.                                    *)
(*   gphase     the pass being run                                         *)
(*   gres       resolution of the frame                                    *)
(*   gpasses    number_of_passes of the spatial reuse                      *)
(*   gpass      index of the spatial pass being run, from 1                *)
(*   gsettings  the buffers the settings' reservoir pointers designate     *)
(*   gfilled    buffer -> the pass that has completely written it          *)
(*   gran       threads of the running launch that passed the kernel's     *)
(*              early return and have finished                             *)
(*   greturned  number of threads of the launch that returned early        *)
(*   greads, gwrites   the buffer accesses of the running launch           *)
(*   ghistory   the passes completed so far, in order                      *)
(***************************************************************************)
VARIABLES gphase, gres, gpasses, gpass, gsettings, gfilled, gran, greturned,
          greads, gwrites, ghistory

gvars == <<gphase, gres, gpasses, gpass, gsettings, gfilled, gran, greturned,
           greads, gwrites, ghistory>>

tile_size_x == 8

tile_size_y == 8

\* Resolutions of the frame.
GridResolutions == {<<1, 1>>, <<2, 1>>, <<1, 2>>, <<2, 2>>}

ReservoirBuffers == {"A", "B", "C"}

\* Renderer::launch_kernel: the threads of a launch over res.
nb_groups(res_x, res_y) ==
    <<(res_x + tile_size_x - 1) \div tile_size_x, (res_y + tile_size_y - 1) \div tile_size_y>>

LaunchThreads(res) ==
    (0..(nb_groups(res[1], res[2])[1] * tile_size_x - 1))
        \X (0..(nb_groups(res[1], res[2])[2] * tile_size_y - 1))

\* The threads of the launch that take the kernel's early return.
EarlyReturnThreads(res) ==
    {t \in LaunchThreads(res) : KernelGuard(t[1] + t[2] * res[1], res)}

\* The buffer the kernel reads its neighbors from, and the one it writes.
KernelReadBuffer(settings) == settings.input_reservoirs

KernelWriteBufferInPlace(settings) == settings.input_reservoirs

KernelWriteBuffer(settings) == settings.output_reservoirs

\* The buffer the final shading reads.
FinalShadingReadBuffer(settings) == settings.restir_output_reservoirs

NoSettings == [input_reservoirs |-> "A", output_reservoirs |-> "A",
               restir_output_reservoirs |-> "A"]

GridInit ==
    /\ gphase = "InitialCandidates"
    /\ gres \in GridResolutions
    /\ gpasses \in 1..MaxPasses
    /\ gpass = 0
    /\ gsettings = NoSettings
    /\ gfilled = [b \in ReservoirBuffers |-> <<"none", 0>>]
    /\ gran = {}
    /\ greturned = 0
    /\ greads = {}
    /\ gwrites = {}
    /\ ghistory = <<>>

GridOff ==
    /\ gphase = "off"
    /\ gres = <<0, 0>>
    /\ gpasses = 0
    /\ gpass = 0
    /\ gsettings = NoSettings
    /\ gfilled = NoFunction
    /\ gran = {}
    /\ greturned = 0
    /\ greads = {}
    /\ gwrites = {}
    /\ ghistory = <<>>

\* The initial candidates pass fills buffer A.
GridInitialCandidates ==
    /\ gphase = "InitialCandidates"
    /\ gfilled' = [gfilled EXCEPT !["A"] = <<"InitialCandidates", 0>>]
    /\ gphase' = "VisibilityReuse"
    /\ ghistory' = Append(ghistory, <<"InitialCandidates", 0>>)
    /\ UNCHANGED <<gres, gpasses, gpass, gsettings, gran, greturned, greads, gwrites>>

\* The visibility reuse pass updates every reservoir of buffer A in place.
GridVisibilityReuse ==
    /\ gphase = "VisibilityReuse"
    /\ gfilled["A"] = <<"InitialCandidates", 0>>
    /\ gfilled' = [gfilled EXCEPT !["A"] = <<"VisibilityReuse", 0>>]
    /\ gphase' = "TemporalReuse"
    /\ ghistory' = Append(ghistory, <<"VisibilityReuse", 0>>)
    /\ UNCHANGED <<gres, gpasses, gpass, gsettings, gran, greturned, greads, gwrites>>

\* The temporal reuse pass reads buffer A and writes buffer B; the first
\* spatial pass is then set up to read B and write C.
GridTemporalReuse ==
    /\ gphase = "TemporalReuse"
    /\ gfilled["A"] = <<"VisibilityReuse", 0>>
    /\ gfilled' = [gfilled EXCEPT !["B"] = <<"TemporalReuse", 0>>]
    /\ gphase' = "SpatialReuse"
    /\ gpass' = 1
    /\ gsettings' = [input_reservoirs |-> "B", output_reservoirs |-> "C",
                     restir_output_reservoirs |-> "C"]
    /\ ghistory' = Append(ghistory, <<"TemporalReuse", 0>>)
    /\ UNCHANGED <<gres, gpasses, gran, greturned, greads, gwrites>>

\* A thread of the spatial pass that takes the kernel's early return.
GridThreadReturns ==
    /\ gphase = "SpatialReuse"
    /\ greturned < Cardinality(EarlyReturnThreads(gres))
    /\ greturned' = greturned + 1
    /\ UNCHANGED <<gphase, gres, gpasses, gpass, gsettings, gfilled, gran, greads, gwrites,
                   ghistory>>

\* A thread of the spatial pass that runs the kernel to its end: it reads the
\* input buffer and writes output_reservoirs[center_pixel_index].
GridThreadRuns ==
    /\ gphase = "SpatialReuse"
    /\ \E t \in LaunchThreads(gres) \ gran :
          /\ ~KernelGuard(t[1] + t[2] * gres[1], gres)
          /\ gran' = gran \cup {t}
          /\ greads' = greads \cup {KernelReadBuffer(gsettings)}
          /\ gwrites' = gwrites \cup {[thread |-> t, buffer |-> KernelWriteBuffer(gsettings),
                                       slot |-> t[1] + t[2] * gres[1]]}
    /\ UNCHANGED <<gphase, gres, gpasses, gpass, gsettings, gfilled, greturned, ghistory>>

LaunchFinished ==
    /\ greturned = Cardinality(EarlyReturnThreads(gres))
    /\ gran = LaunchThreads(gres) \ EarlyReturnThreads(gres)

\* The launch of a spatial pass has returned: the next pass reads what this one
\* wrote and writes the other buffer of the pair, or the final shading starts.
GridBarrier ==
    /\ gphase = "SpatialReuse"
    /\ LaunchFinished
    /\ gfilled' = [b \in ReservoirBuffers |->
                     IF \E w \in gwrites : w.buffer = b THEN <<"SpatialReuse", gpass>>
                     ELSE gfilled[b]]
    /\ ghistory' = Append(ghistory, <<"SpatialReuse", gpass>>)
    /\ gran' = {}
    /\ greturned' = 0
    /\ greads' = {}
    /\ gwrites' = {}
    /\ IF gpass < gpasses
       THEN /\ gpass' = gpass + 1
            /\ gsettings' = [input_reservoirs |-> gsettings.output_reservoirs,
                             output_reservoirs |-> gsettings.input_reservoirs,
                             restir_output_reservoirs |-> gsettings.input_reservoirs]
            /\ UNCHANGED gphase
       ELSE /\ gphase' = "FinalShading"
            /\ UNCHANGED <<gpass, gsettings>>
    /\ UNCHANGED <<gres, gpasses>>

\* The final shading reads the reservoir of every pixel.
GridFinalShading ==
    /\ gphase = "FinalShading"
    /\ greads' = {FinalShadingReadBuffer(gsettings)}
    /\ gphase' = "FrameDone"
    /\ ghistory' = Append(ghistory, <<"FinalShading", 0>>)
    /\ UNCHANGED <<gres, gpasses, gpass, gsettings, gfilled, gran, greturned, gwrites>>

(***************************************************************************)
(* The spatial neighbor-index functions, called on their own.              *)
(*   ipc      "ready" before the call, "done" after                        *)
(*   icfg     the arguments of the call                                    *)
(*   iresult  what the call read and returned                              *)
(***************************************************************************)
VARIABLES ipc, icfg, iresult

ivars == <<ipc, icfg, iresult>>

\* Resolutions of the viewport; the wide one lets the debug location land inside.
IndexResolutions == {<<2, 2>>, <<17, 1>>}

\* The fixed offset of the debug neighbor location.
DebugNeighborOffset == <<15, 0>>

\* The viewport test of get_spatial_neighbor_pixel_index.
OutsideViewportOffByOne(coords, res) ==
    coords[1] < 0 \/ coords[1] > res[1] \/ coords[2] < 0 \/ coords[2] > res[2]

OutsideViewport(coords, res) ==
    coords[1] < 0 \/ coords[1] >= res[1] \/ coords[2] < 0 \/ coords[2] >= res[2]

\* The pixel get_spatial_neighbor_pixel_index looks at for an ordinal other
\* than the last.
SpatialNeighborCoords(center, offset, debug_neighbor_location) ==
    IF debug_neighbor_location
    THEN <<center[1] + DebugNeighborOffset[1], center[2] + DebugNeighborOffset[2]>>
    ELSE <<center[1] + offset[1], center[2] + offset[2]>>

\* get_spatial_neighbor_pixel_index.  adaptive: adaptive sampling is enabled and
\* has reached its minimum sample count; draw_exceeds: the random number drawn
\* is above converged_neighbor_reuse_probability; converged: the neighbor's
\* pixel_converged_sample_count is not -1.
GetSpatialNeighborPixelIndex(neighbor_number, neighbor_reuse_count, center, res, offset, debug_neighbor_location, adaptive, allow_converged_neighbors_reuse, draw_exceeds, converged) ==
    IF neighbor_number = neighbor_reuse_count
    THEN center[1] + center[2] * res[1]
    ELSE LET neighbor_pixel_coords ==
                 SpatialNeighborCoords(center, offset, debug_neighbor_location)
             neighbor_pixel_index == neighbor_pixel_coords[1] + neighbor_pixel_coords[2] * res[1]
         IN  IF OutsideViewport(neighbor_pixel_coords, res) THEN -1
             ELSE IF adaptive
             THEN IF allow_converged_neighbors_reuse
                  THEN (IF draw_exceeds /\ converged THEN -1 ELSE neighbor_pixel_index)
                  ELSE (IF converged THEN -1 ELSE neighbor_pixel_index)
             ELSE neighbor_pixel_index

IndexConfigs ==
    {c \in [res : IndexResolutions, center : (0..17) \X (0..1),
            neighbor_reuse_count : 0..MaxReuse, neighbor_number : 0..MaxReuse,
            radius : 1..MaxRadius, offset : DiskOffsets(MaxRadius)] :
        /\ c.center[1] <= c.res[1] /\ c.center[2] < c.res[2]
        /\ c.neighbor_number <= c.neighbor_reuse_count
        /\ c.offset \in DiskOffsets(c.radius)}

NoIndexResult == [function |-> "none", index |-> -1, coords |-> <<0, 0>>,
                  debug_neighbor_location |-> FALSE, adaptive |-> FALSE, converged |-> FALSE]

IndexInit ==
    /\ ipc = "ready"
    /\ icfg \in IndexConfigs
    /\ iresult = NoIndexResult

IndexOff ==
    /\ ipc = "off"
    /\ icfg = NoFunction
    /\ iresult = NoIndexResult

\* A call of the kernel's get_neighbor_pixel_index.
IndexKernelCall ==
    /\ ipc = "ready"
    /\ ipc' = "done"
    /\ iresult' = [NoIndexResult EXCEPT
                     !.function = "get_neighbor_pixel_index",
                     !.index = GetNeighborPixelIndex(icfg.neighbor_number,
                                   icfg.neighbor_reuse_count, icfg.center, icfg.res,
                                   icfg.offset),
                     !.coords = IF icfg.neighbor_number = icfg.neighbor_reuse_count
                                THEN icfg.center
                                ELSE SpatialNeighborCoords(icfg.center, icfg.offset, FALSE)]
    /\ UNCHANGED icfg

\* A call of get_spatial_neighbor_pixel_index; the settings and the convergence
\* buffer are read where the function reads them.
IndexSpatialCall ==
    /\ ipc = "ready"
    /\ ipc' = "done"
    /\ LET last == icfg.neighbor_number = icfg.neighbor_reuse_count IN
       \E debug_neighbor_location \in (IF last THEN {FALSE} ELSE BOOLEAN) :
       LET coords == IF last THEN icfg.center
                     ELSE SpatialNeighborCoords(icfg.center, icfg.offset,
                                                debug_neighbor_location)
           inside == ~last /\ ~OutsideViewport(coords, icfg.res)
       IN
       \E adaptive \in (IF inside THEN BOOLEAN ELSE {FALSE}) :
       \E allow \in (IF adaptive THEN BOOLEAN ELSE {FALSE}) :
       \E draw_exceeds \in (IF adaptive /\ allow THEN BOOLEAN ELSE {FALSE}) :
       \E converged \in (IF adaptive /\ (~allow \/ draw_exceeds) THEN BOOLEAN ELSE {FALSE}) :
       iresult' = [function |-> "get_spatial_neighbor_pixel_index",
                   index |-> GetSpatialNeighborPixelIndex(icfg.neighbor_number,
                                 icfg.neighbor_reuse_count, icfg.center, icfg.res,
                                 icfg.offset, debug_neighbor_location, adaptive, allow,
                                 draw_exceeds, converged),
                   coords |-> coords,
                   debug_neighbor_location |-> debug_neighbor_location,
                   adaptive |-> adaptive,
                   converged |-> converged]
    /\ UNCHANGED icfg

(***************************************************************************)
(* The neighbor similarity heuristics, called on their own.                *)
(*   hpc       the statement of check_neighbor_similarity_heuristics that  *)
(*             runs next                                                   *)
(*   hsettings the heuristics' settings                                    *)
(*   hgeometry what the G-buffer holds for the two pixels compared         *)
(*   hpassed   the three results computed so far                           *)
(*   hresult   the value returned                                          *)
(***************************************************************************)
VARIABLES hpc, hsettings, hgeometry, hpassed, hresult

hvars == <<hpc, hsettings, hgeometry, hpassed, hresult>>

\* Settings of the heuristics; the thresholds are fixed, the measures vary.
HeuristicSettings ==
    [use_plane_distance_heuristic : BOOLEAN,
     use_normal_similarity_heuristic : BOOLEAN,
     use_roughness_similarity_heuristic : BOOLEAN,
     plane_distance_threshold : {1},
     normal_similarity_angle_precomp : {1},
     roughness_similarity_threshold : {1}]

\* What the heuristics measure between a neighbor and the center: the distance
\* of the neighbor's point to the center's plane, the dot product of the two
\* normals, and the two roughnesses, in units of the thresholds.
NeighborGeometries ==
    [distance_to_plane : 0..MaxMeasure, normal_dot : 0..MaxMeasure,
     neighbor_roughness : 0..MaxMeasure, center_roughness : 0..MaxMeasure]

\* plane_distance_heuristic.
PlaneDistanceHeuristic(settings, distance_to_plane) ==
    IF ~settings.use_plane_distance_heuristic THEN TRUE
    ELSE distance_to_plane < settings.plane_distance_threshold

\* normal_similarity_heuristic.
NormalSimilarityHeuristic(settings, normal_dot) ==
    IF settings.use_normal_similarity_heuristic THEN TRUE
    ELSE normal_dot > settings.normal_similarity_angle_precomp

\* roughness_similarity_heuristic.
RoughnessSimilarityHeuristic(settings, neighbor_roughness, center_pixel_roughness) ==
    IF ~settings.use_roughness_similarity_heuristic THEN TRUE
    ELSE Abs(neighbor_roughness - center_pixel_roughness) < settings.roughness_similarity_threshold

\* check_neighbor_similarity_heuristics.
CheckNeighborSimilarityHeuristics(settings, g) ==
    LET plane_distance_passed == PlaneDistanceHeuristic(settings, g.distance_to_plane)
        normal_similarity_passed == NormalSimilarityHeuristic(settings, g.normal_dot)
        roughness_similarity_passed ==
            RoughnessSimilarityHeuristic(settings, g.neighbor_roughness, g.center_roughness)
    IN  plane_distance_passed /\ normal_similarity_passed /\ roughness_similarity_passed

NoPassed == [plane_distance |-> FALSE, normal_similarity |-> FALSE,
             roughness_similarity |-> FALSE]

NoGeometry == [distance_to_plane |-> 0, normal_dot |-> 0, neighbor_roughness |-> 0,
               center_roughness |-> 0]

NoHeuristicSettings ==
    [use_plane_distance_heuristic |-> FALSE, use_normal_similarity_heuristic |-> FALSE,
     use_roughness_similarity_heuristic |-> FALSE, plane_distance_threshold |-> 1,
     normal_similarity_angle_precomp |-> 1, roughness_similarity_threshold |-> 1]

HeurInit ==
    /\ hpc = "plane"
    /\ hsettings \in HeuristicSettings
    /\ hgeometry \in NeighborGeometries
    /\ hpassed = NoPassed
    /\ hresult = FALSE

HeurOff ==
    /\ hpc = "off"
    /\ hsettings = NoHeuristicSettings
    /\ hgeometry = NoGeometry
    /\ hpassed = NoPassed
    /\ hresult = FALSE

HeurPlaneDistance ==
    /\ hpc = "plane"
    /\ hpassed' = [hpassed EXCEPT !.plane_distance =
                       PlaneDistanceHeuristic(hsettings, hgeometry.distance_to_plane)]
    /\ hpc' = "normal"
    /\ UNCHANGED <<hsettings, hgeometry, hresult>>

HeurNormalSimilarity ==
    /\ hpc = "normal"
    /\ hpassed' = [hpassed EXCEPT !.normal_similarity =
                       NormalSimilarityHeuristic(hsettings, hgeometry.normal_dot)]
    /\ hpc' = "roughness"
    /\ UNCHANGED <<hsettings, hgeometry, hresult>>

HeurRoughnessSimilarity ==
    /\ hpc = "roughness"
    /\ hpassed' = [hpassed EXCEPT !.roughness_similarity =
                       RoughnessSimilarityHeuristic(hsettings, hgeometry.neighbor_roughness,
                                                    hgeometry.center_roughness)]
    /\ hpc' = "return"
    /\ UNCHANGED <<hsettings, hgeometry, hresult>>

HeurReturn ==
    /\ hpc = "return"
    /\ hresult' = (hpassed.plane_distance /\ hpassed.normal_similarity
                   /\ hpassed.roughness_similarity)
    /\ hpc' = "done"
    /\ UNCHANGED <<hsettings, hgeometry, hpassed>>

(***************************************************************************)
(* The normalization functions of the spatial reuse, called on their own,  *)
(* one loop iteration per step.                                            *)
(*   npc       the statement that runs next                                *)
(*   ncfg      the arguments and settings of the call                      *)
(*   nneighbor the loop counter                                            *)
(*   nacc      the two outputs, and what the call has visited so far       *)
(*   nscene    what the call has read of the buffers and of the scene      *)
(*   nlog      one record per loop iteration, in execution order           *)
(***************************************************************************)
VARIABLES npc, ncfg, nneighbor, nacc, nscene, nlog

nvars == <<npc, ncfg, nneighbor, nacc, nscene, nlog>>

NormRes == <<2, 1>>

NormPixels == 0..(NormRes[1] * NormRes[2] - 1)

\* The final reservoirs the combine loop can hand to the normalization:
\* nothing was selected, or a sample with a positive weight sum.
FinalReservoirs ==
    {[sample |-> NoSample, weight_sum |-> Zero, M |-> 1, UCW |-> Zero]}
    \cup {[sample |-> [id |-> p, kind |-> "triangle", target_function |-> 1],
           weight_sum |-> One, M |-> 1, UCW |-> Zero] : p \in NormPixels}

\* What the heuristics can measure at a neighbor: everything alike, or a
\* different plane and a different normal.
NormGeometries ==
    {[distance_to_plane |-> 0, normal_dot |-> MaxMeasure, neighbor_roughness |-> 0,
      center_roughness |-> 0],
     [distance_to_plane |-> MaxMeasure, normal_dot |-> 0, neighbor_roughness |-> 0,
      center_roughness |-> 0]}

\* What the heuristics can measure at pixel p from the center pixel: the
\* center compared with itself is alike.
GeometriesAt(p, center) ==
    IF p = center THEN {g \in NormGeometries : g.distance_to_plane = 0} ELSE NormGeometries

\* Options and arguments a mode never reads have one value.
NormConfigs ==
    {c \in [variant : {"kernel", "struct"}, mode : BiasCorrectionModes,
            final_reservoir : FinalReservoirs, reused_neighbors_count : 0..MaxReuse,
            selected_neighbor : 0..MaxReuse, center : (0..(NormRes[1] - 1)) \X {0},
            biasVis : BOOLEAN, spatial_pass_index : {0, 1},
            settings : HeuristicSettings] :
        /\ c.selected_neighbor <= c.reused_neighbors_count
        /\ c.variant = "kernel" => c.settings = NoHeuristicSettings
        /\ ~(c.variant = "struct" /\ c.mode = RESTIR_DI_BIAS_CORRECTION_1_OVER_Z)
               => c.spatial_pass_index = 0
        /\ (IsGBH(c.mode) \/ c.mode = RESTIR_DI_BIAS_CORRECTION_1_OVER_M) => ~c.biasVis
        /\ c.mode \notin {RESTIR_DI_BIAS_CORRECTION_MIS_LIKE,
                          RESTIR_DI_BIAS_CORRECTION_MIS_LIKE_CONFIDENCE_WEIGHTS}
               => c.selected_neighbor = 0
        /\ IsGBH(c.mode) => c.settings = NoHeuristicSettings}

\* The disk offsets along the one row of NormRes.
NormOffsets == {o \in DiskOffsets(MaxRadius) : o[2] = 0}

NoScene == [M |-> <<>>, geometry |-> <<>>, scores |-> <<>>, rays |-> <<>>]

NormInit ==
    /\ npc = "enter"
    /\ ncfg \in NormConfigs
    /\ nneighbor = 0
    /\ nacc = NoNormalization
    /\ nscene = NoScene
    /\ nlog = <<>>

NormOff ==
    /\ npc = "off"
    /\ ncfg = NoFunction
    /\ nneighbor = 0
    /\ nacc = NoNormalization
    /\ nscene = NoScene
    /\ nlog = <<>>

\* The early return, or the start of the loop.
NormEnter ==
    /\ npc = "enter"
    /\ IF NormalizationRunsLoop(ncfg.mode, ncfg.final_reservoir.weight_sum)
       THEN /\ nacc' = NormalizationStart(ncfg.mode)
            /\ npc' = "loop"
       ELSE /\ nacc' = NoNormalization
            /\ npc' = "done"
    /\ UNCHANGED <<ncfg, nneighbor, nscene, nlog>>

\* Does this call evaluate the target function with the visibility term?
NormalizationUsesVisibility(variant, mode, biasVis, spatial_pass_index) ==
    IF variant = "struct" /\ mode = RESTIR_DI_BIAS_CORRECTION_1_OVER_Z
       /\ spatial_pass_index # 0
    THEN FALSE
    ELSE biasVis

\* What is known or can be learnt of memo at key.
Recall(memo, key, values) == IF key \in DOMAIN memo THEN {memo[key]} ELSE values

\* One iteration of the loop over the neighbors.
NormVisit ==
    /\ npc = "loop"
    /\ nneighbor < ncfg.reused_neighbors_count + 1
    /\ \E offset \in NormOffsets, converged \in BOOLEAN :
       LET struct == ncfg.variant = "struct"
           sample == ncfg.final_reservoir.sample
           idx == IF struct
                  THEN GetSpatialNeighborPixelIndex(nneighbor, ncfg.reused_neighbors_count,
                           ncfg.center, NormRes, offset, FALSE, converged, FALSE, FALSE,
                           converged)
                  ELSE GetNeighborPixelIndex(nneighbor, ncfg.reused_neighbors_count,
                           ncfg.center, NormRes, offset)
           key == <<sample.id, idx>>
           vis == NormalizationUsesVisibility(ncfg.variant, ncfg.mode, ncfg.biasVis,
                                              ncfg.spatial_pass_index)
       IN
       /\ ~struct => ~converged
       /\ \E g \in (IF struct /\ idx # -1
                    THEN Recall(nscene.geometry, idx,
                                GeometriesAt(idx, ncfg.center[1] + ncfg.center[2] * NormRes[1]))
                    ELSE {NoGeometry}) :
          LET admitted == ~struct \/ CheckNeighborSimilarityHeuristics(ncfg.settings, g)
              reached == idx # -1 /\ admitted
              evaluates == reached /\ ncfg.mode # RESTIR_DI_BIAS_CORRECTION_1_OVER_M
          IN
          \E e \in (IF evaluates THEN ScoreExtensions({key}, nscene.scores) ELSE {<<>>}) :
          LET sc == e @@ nscene.scores IN
          \E r \in (IF evaluates THEN RayExtensions(RayKeys(vis, sample, {key}, sc), nscene.rays)
                    ELSE {<<>>}) :
          LET ry == r @@ nscene.rays
              tf == IF evaluates THEN EvaluateTargetFunction(vis, sample, key, sc, ry) ELSE 0
              readsM == reached /\ (ncfg.mode = RESTIR_DI_BIAS_CORRECTION_1_OVER_M \/ tf > 0)
          IN
          \E m \in (IF readsM THEN Recall(nscene.M, idx, {1, MaxM}) ELSE {0}) :
          /\ nacc' = NormalizationVisit(ncfg.variant, ncfg.mode, nacc, nneighbor,
                         ncfg.selected_neighbor, idx, admitted, tf, m)
          /\ nscene' = [M |-> IF readsM THEN (idx :> m) @@ nscene.M ELSE nscene.M,
                        geometry |-> IF struct /\ idx # -1
                                     THEN (idx :> g) @@ nscene.geometry
                                     ELSE nscene.geometry,
                        scores |-> sc, rays |-> ry]
          /\ nlog' = Append(nlog, [neighbor |-> nneighbor, index |-> idx,
                                   admitted |-> admitted, evaluated |-> evaluates,
                                   visibility |-> evaluates /\ vis, tf |-> tf,
                                   readsM |-> readsM])
    /\ nneighbor' = nneighbor + 1
    /\ UNCHANGED <<npc, ncfg>>

\* The end of the loop.
NormReturn ==
    /\ npc = "loop"
    /\ ~(nneighbor < ncfg.reused_neighbors_count + 1)
    /\ npc' = "done"
    /\ UNCHANGED <<ncfg, nneighbor, nacc, nscene, nlog>>

(***************************************************************************)
(* The temporal neighbor search (find_temporal_neighbor_index), one probe  *)
(* per step.  Positions and jitter are in half pixels.                     *)
(*   tpc       the statement that runs next                                *)
(*   tcfg      the reprojected position and the settings                   *)
(*   ti        the loop counter                                            *)
(*   tprobes   one record per probe, in execution order                    *)
(*   tgeometry what the heuristics have measured at the pixels probed      *)
(*   temporal_neighbor_index   the local of that name, returned at the end *)
(***************************************************************************)
VARIABLES tpc, tcfg, ti, tprobes, tgeometry, temporal_neighbor_index

tvars == <<tpc, tcfg, ti, tprobes, tgeometry, temporal_neighbor_index>>

TemporalRes == <<2, 1>>

\* round(): to the nearest integer, halves away from zero; h is in half pixels.
Round(h) == IF h >= 0 THEN (h + 1) \div 2 ELSE -((1 - h) \div 2)

\* (random - 0.5) * neighbor_search_radius, in half pixels.
JitterOffsets == (-MaxJitter..MaxJitter) \X (-MaxJitter..MaxJitter)

\* prev_pixel_float, in half pixels: on, between and around the pixels.
ReprojectedPositions == (-2..(2 * TemporalRes[1])) \X {0}

TemporalConfigs ==
    [prev_pixel_float : ReprojectedPositions,
     max_neighbor_search_count : 0..MaxSearch,
     settings : HeuristicSettings]

\* The pixel probed for a jitter offset.
TemporalNeighborScreenPixelPos(prev_pixel_float, offset) ==
    <<Round(prev_pixel_float[1] + offset[1]), Round(prev_pixel_float[2] + offset[2])>>

TemporalInit ==
    /\ tpc = "loop"
    /\ tcfg \in TemporalConfigs
    /\ ti = 0
    /\ tprobes = <<>>
    /\ tgeometry = <<>>
    /\ temporal_neighbor_index = -1

TemporalOff ==
    /\ tpc = "off"
    /\ tcfg = NoFunction
    /\ ti = 0
    /\ tprobes = <<>>
    /\ tgeometry = <<>>
    /\ temporal_neighbor_index = -1

\* One iteration of the search loop.
TemporalProbe ==
    /\ tpc = "loop"
    /\ ti < tcfg.max_neighbor_search_count + 1
    /\ \E offset \in (IF ti > 0 THEN JitterOffsets ELSE {<<0, 0>>}) :
       LET pos == TemporalNeighborScreenPixelPos(tcfg.prev_pixel_float, offset)
           index == pos[1] + pos[2] * TemporalRes[1]
           probe == [offset |-> offset, pos |-> pos]
       IN
       /\ tprobes' = Append(tprobes, probe)
       /\ IF OutsideViewport(pos, TemporalRes)
          THEN /\ ti' = ti + 1
               /\ UNCHANGED <<tpc, tgeometry, temporal_neighbor_index>>
          ELSE \E g \in Recall(tgeometry, index, NormGeometries) :
               /\ tgeometry' = (index :> g) @@ tgeometry
               /\ IF CheckNeighborSimilarityHeuristics(tcfg.settings, g)
                  THEN /\ temporal_neighbor_index' = index
                       /\ tpc' = "return"
                       /\ ti' = ti
                  ELSE /\ temporal_neighbor_index' = -1
                       /\ tpc' = "loop"
                       /\ ti' = ti + 1
    /\ UNCHANGED tcfg

\* The return statement, after a break or at the end of the loop.
TemporalReturn ==
    /\ \/ tpc = "return"
       \/ tpc = "loop" /\ ~(ti < tcfg.max_neighbor_search_count + 1)
    /\ tpc' = "done"
    /\ UNCHANGED <<tcfg, ti, tprobes, tgeometry, temporal_neighbor_index>>

(***************************************************************************)
(* Specifications.                                                         *)
(***************************************************************************)
(***************************************************************************)
(* ReSTIR_DI_visibility_reuse, applied twice to the reservoir of one       *)
(* pixel.                                                                  *)
(*   vpc         the application that runs next                            *)
(*   vreservoir  the reservoir of the pixel                                *)
(*   vrays       what the shadow rays traced so far have reported          *)
(*   vlog        one entry per application                                 *)
(***************************************************************************)
VARIABLES vpc, vreservoir, vrays, vlog

visvars == <<vpc, vreservoir, vrays, vlog>>

\* The reservoirs the earlier passes can hand to the visibility reuse: without
\* a sample, or with a triangle or environment-map sample and a finite UCW,
\* negative if an earlier visibility reuse found the sample occluded.
VisReservoirs ==
    {[sample |-> NoSample, weight_sum |-> Zero, M |-> m, UCW |-> Zero] : m \in {0, 1, MaxM}}
    \cup {r \in [sample : [id : 0..1, kind : {"triangle", "envmap"}, target_function : {1}],
                 weight_sum : {One, R(2)}, M : {1, MaxM},
                 UCW : {MinusOne, Zero, <<1, 2>>, One, R(2)}] : TRUE}

\* The shadow ray toward the sample: along the stored direction for an
\* environment-map sample, toward the point on the light otherwise.
VisibilityReuseRay(sample) ==
    [sample |-> sample.id,
     along |-> IF sample.kind = "envmap" THEN "direction" ELSE "point"]

\* ReSTIR_DI_visibility_reuse, were it to mark an occluded sample as
\* spatial_visibility_reuse does.
ReSTIRDIVisibilityReuseZeroing(reservoir, occluded) ==
    IF RLeq(reservoir.UCW, Zero) THEN reservoir
    ELSE IF occluded THEN [reservoir EXCEPT !.UCW = Zero]
    ELSE reservoir

\* ReSTIR_DI_visibility_reuse; occluded is what its shadow ray reports.
ReSTIRDIVisibilityReuse(reservoir, occluded) ==
    IF RLeq(reservoir.UCW, Zero) THEN reservoir
    ELSE IF occluded THEN [reservoir EXCEPT !.UCW = MinusOne]
    ELSE reservoir

\* Does ReSTIR_DI_visibility_reuse trace its shadow ray?
VisibilityReuseTraces(reservoir) == ~RLeq(reservoir.UCW, Zero)

VisInit ==
    /\ vpc = "first"
    /\ vreservoir \in VisReservoirs
    /\ vrays = <<>>
    /\ vlog = <<>>

VisOff ==
    /\ vpc = "off"
    /\ vreservoir = EmptyReservoir
    /\ vrays = <<>>
    /\ vlog = <<>>

\* One application of ReSTIR_DI_visibility_reuse.
VisApply ==
    /\ vpc \in {"first", "second"}
    /\ LET traces == VisibilityReuseTraces(vreservoir)
           ray == VisibilityReuseRay(vreservoir.sample)
       IN
       \E occluded \in (IF traces THEN Recall(vrays, ray, BOOLEAN) ELSE {FALSE}) :
       /\ vreservoir' = ReSTIRDIVisibilityReuse(vreservoir, occluded)
       /\ vrays' = IF traces THEN (ray :> occluded) @@ vrays ELSE vrays
       /\ vlog' = Append(vlog, [before |-> vreservoir, traced |-> traces,
                                occluded |-> occluded, after |-> vreservoir'])
    /\ vpc' = IF vpc = "first" THEN "second" ELSE "done"

(***************************************************************************)
(* get_jacobian_determinant_reconnection_shift and the kernel's branch on  *)
(* its result.                                                             *)
(*   jpc        the statement that runs next                               *)
(*   jgeometry  the distances to the light point and the cosines at the    *)
(*              light, from the center and from the neighbor               *)
(*   jratio     cosine_ratio * distance_squared_ratio                      *)
(*   jresult    the returned determinant                                   *)
(*   jpath      what the kernel does with the neighbor's sample            *)
(***************************************************************************)
VARIABLES jpc, jgeometry, jratio, jresult, jpath

jvars == <<jpc, jgeometry, jratio, jresult, jpath>>

\* Largest distance to the light point.
MaxDistance == 5

\* The cosines at the light are the multiples of 1/MaxCosine in [0, 1].
MaxCosine == 2

\* The distances and the light normal's dot products the scene can produce.
JacobianGeometries ==
    [distance_to_light_at_center : 0..MaxDistance,
     distance_to_light_at_neighbor : 0..MaxDistance,
     dot_at_center : 0..MaxCosine, dot_at_neighbor : 0..MaxCosine]

\* abs(dot(-to_light_direction, light_source_normal)): the direction has been
\* divided by its length, so a zero distance makes it NaN.
CosineLightSource(distance, dot) ==
    IF distance = 0 THEN <<0, 0>> ELSE RNorm(dot, MaxCosine)

\* cosine_ratio * distance_squared_ratio.
ReconnectionShiftRatio(g) ==
    LET cosine_light_source_at_center ==
            CosineLightSource(g.distance_to_light_at_center, g.dot_at_center)
        cosine_light_source_at_neighbor ==
            CosineLightSource(g.distance_to_light_at_neighbor, g.dot_at_neighbor)
        cosine_ratio == RDiv(cosine_light_source_at_center, cosine_light_source_at_neighbor)
        distance_squared_ratio ==
            RDiv(R(g.distance_to_light_at_neighbor * g.distance_to_light_at_neighbor),
                 R(g.distance_to_light_at_center * g.distance_to_light_at_center))
    IN  RMul(cosine_ratio, distance_squared_ratio)

NoJacobianGeometry ==
    [distance_to_light_at_center |-> 0, distance_to_light_at_neighbor |-> 0,
     dot_at_center |-> 0, dot_at_neighbor |-> 0]

JacobianInit ==
    /\ jpc = "call"
    /\ jgeometry \in JacobianGeometries
    /\ jratio = One
    /\ jresult = One
    /\ jpath = "none"

JacobianOff ==
    /\ jpc = "off"
    /\ jgeometry = NoJacobianGeometry
    /\ jratio = One
    /\ jresult = One
    /\ jpath = "none"

\* The call of get_jacobian_determinant_reconnection_shift.
JacobianCall ==
    /\ jpc = "call"
    /\ jratio' = ReconnectionShiftRatio(jgeometry)
    /\ jresult' = GetJacobianDeterminantReconnectionShift(jratio')
    /\ jpc' = "branch"
    /\ UNCHANGED <<jgeometry, jpath>>

\* The kernel's test of the determinant.
JacobianBranch ==
    /\ jpc = "branch"
    /\ jpath' = IF jresult = MinusOne THEN "rejected" ELSE "combined"
    /\ jpc' = "done"
    /\ UNCHANGED <<jgeometry, jratio, jresult>>

(***************************************************************************)
(* ReSTIR_DI_evaluate_target_function<withVisiblity>, statement by         *)
(* statement.                                                              *)
(*   fpc      the statement that runs next                                 *)
(*   fin      the specialization, the sample's kind and what the scene     *)
(*            answers: the dot product of the shading normal and the       *)
(*            sample direction (in units of 1/MaxCosine), the luminance of *)
(*            BSDF * emission, the occlusion of the shadow ray             *)
(*   flocal   cosine_term and target_function                              *)
(*   fcount   the BSDF evaluations and shadow rays made                    *)
(*   fresult  the returned value                                           *)
(***************************************************************************)
VARIABLES fpc, fin, flocal, fcount, fresult

fvars == <<fpc, fin, flocal, fcount, fresult>>

\* Largest luminance of bsdf_color * sample_emission.
MaxLuminance == 2

TargetInputs ==
    [withVisiblity : BOOLEAN, kind : {"none", "triangle", "envmap"},
     dot : (-1)..MaxCosine, luminance : 0..MaxLuminance, occluded : BOOLEAN]

NoTargetInput ==
    [withVisiblity |-> FALSE, kind |-> "none", dot |-> 0, luminance |-> 0, occluded |-> FALSE]

NoLocals == [cosine_term |-> 0, target_function |-> 0]

NoCounts == [bsdf |-> 0, rays |-> 0]

\* cosine_term, were the dot product not clamped at 0.
CosineTermUnclamped(dot) == dot

\* cosine_term = max(0, dot(shading_normal, sample_direction)).
CosineTerm(dot) == Max(0, dot)

\* target_function *= visible, were the factor left out.
ApplyVisibilityIgnoringRay(target_function, visible) == target_function

\* target_function *= visible.
ApplyVisibility(target_function, visible) == IF visible THEN target_function ELSE 0

TargetInit ==
    /\ fpc = "sample"
    /\ fin \in TargetInputs
    /\ flocal = NoLocals
    /\ fcount = NoCounts
    /\ fresult = 0

TargetOff ==
    /\ fpc = "off"
    /\ fin = NoTargetInput
    /\ flocal = NoLocals
    /\ fcount = NoCounts
    /\ fresult = 0

\* The test for a sample that is neither a triangle nor an environment-map
\* sample.
TargetCheckSample ==
    /\ fpc = "sample"
    /\ IF fin.kind = "none"
       THEN fresult' = 0 /\ fpc' = "done"
       ELSE fresult' = fresult /\ fpc' = "cosine"
    /\ UNCHANGED <<fin, flocal, fcount>>

\* The cosine term and its early return.
TargetCosine ==
    /\ fpc = "cosine"
    /\ LET cosine_term == CosineTerm(fin.dot) IN
       /\ flocal' = [flocal EXCEPT !.cosine_term = cosine_term]
       /\ IF cosine_term = 0
          THEN fresult' = 0 /\ fpc' = "done"
          ELSE fresult' = fresult /\ fpc' = "shade"
    /\ UNCHANGED <<fin, fcount>>

\* The BSDF, the emission, their luminance and the early return on 0.
TargetShade ==
    /\ fpc = "shade"
    /\ LET target_function == fin.luminance * flocal.cosine_term IN
       /\ flocal' = [flocal EXCEPT !.target_function = target_function]
       /\ fcount' = [fcount EXCEPT !.bsdf = @ + 1]
       /\ IF target_function = 0
          THEN fresult' = 0 /\ fpc' = "done"
          ELSE IF fin.withVisiblity
          THEN fresult' = fresult /\ fpc' = "ray"
          ELSE fresult' = target_function /\ fpc' = "done"
    /\ UNCHANGED fin

\* The shadow ray of the specialization with visibility.
TargetShadowRay ==
    /\ fpc = "ray"
    /\ fcount' = [fcount EXCEPT !.rays = @ + 1]
    /\ fresult' = ApplyVisibility(flocal.target_function, ~fin.occluded)
    /\ fpc' = "done"
    /\ UNCHANGED <<fin, flocal>>

(***************************************************************************)
(* The queries one worker makes of get_spatial_neighbor_pixel_index.  A    *)
(* generator is the pair of its seed and of how many numbers it has handed *)
(* out; what it hands out is a function of the two.                        *)
(*   qcfg      the center, the neighbors' offsets (fixed by the worker's   *)
(*             rotation), the adaptive sampling settings, the converged    *)
(*             pixels and render_data.random_seed                          *)
(*   qrng      how many numbers the worker's own generator has handed out  *)
(*   qdraws    <<seed, position>> -> is the number above                   *)
(*             converged_neighbor_reuse_probability?                       *)
(*   qasker    the part of the worker that queries next: the resampling    *)
(*             loop, the MIS-weight computation, the normalization         *)
(*   qordinal  the ordinal it queries next                                 *)
(*   qanswers  ordinal -> the answers given so far                         *)
(***************************************************************************)
VARIABLES qcfg, qrng, qdraws, qasker, qordinal, qanswers

qvars == <<qcfg, qrng, qdraws, qasker, qordinal, qanswers>>

\* Most random numbers the worker consumes between its queries.
MaxConsumed == 2

QueryConfigs ==
    {c \in [center : (0..(NormRes[1] - 1)) \X {0}, reused_neighbors_count : 0..MaxReuse,
            offsets : [0..MaxReuse -> NormOffsets], adaptive : BOOLEAN,
            allow_converged_neighbors_reuse : BOOLEAN, converged : SUBSET NormPixels,
            random_seed : {1, 2}, worker_seed : {3}] :
        /\ \A j \in 0..MaxReuse : j >= c.reused_neighbors_count => c.offsets[j] = <<0, 0>>
        /\ ~c.adaptive => (~c.allow_converged_neighbors_reuse /\ c.converged = {})}

\* The generator handed to get_spatial_neighbor_pixel_index, were it the
\* worker's own.
ConvergedReuseGeneratorOfWorker(random_seed, worker_seed, consumed) ==
    [seed |-> worker_seed, position |-> consumed]

\* The generator handed to get_spatial_neighbor_pixel_index:
\* Xorshift32Generator(render_data.random_seed), passed by value.
ConvergedReuseGenerator(random_seed, worker_seed, consumed) ==
    [seed |-> random_seed, position |-> 0]

\* Does this call draw a number from its generator?
QueryDraws(c, ordinal) ==
    /\ ordinal # c.reused_neighbors_count
    /\ ~OutsideViewport(SpatialNeighborCoords(c.center, c.offsets[ordinal], FALSE), NormRes)
    /\ c.adaptive
    /\ c.allow_converged_neighbors_reuse

\* The pixel the ordinal lands on before the convergence test, -1 outside.
QueryPixel(c, ordinal) ==
    GetSpatialNeighborPixelIndex(ordinal, c.reused_neighbors_count, c.center, NormRes,
                                 c.offsets[ordinal], FALSE, FALSE, FALSE, FALSE, FALSE)

QueryInit ==
    /\ qcfg \in QueryConfigs
    /\ qrng = 0
    /\ qdraws = <<>>
    /\ qasker = "resampling"
    /\ qordinal = 0
    /\ qanswers = <<>>

QueryOff ==
    /\ qcfg = NoFunction
    /\ qrng = 0
    /\ qdraws = <<>>
    /\ qasker = "off"
    /\ qordinal = 0
    /\ qanswers = <<>>

\* The part of the worker that queries after `asker` has gone through the
\* ordinals.
NextAsker(asker) ==
    IF asker = "resampling" THEN "mis_weight"
    ELSE IF asker = "mis_weight" THEN "normalization"
    ELSE "done"

\* One call of get_spatial_neighbor_pixel_index by the given part of the
\* worker.
Query(asker) ==
    /\ qasker = asker
    /\ LET ordinal == qordinal IN
       LET rng_converged_neighbor_reuse ==
               ConvergedReuseGenerator(qcfg.random_seed, qcfg.worker_seed, qrng)
           key == <<rng_converged_neighbor_reuse.seed, rng_converged_neighbor_reuse.position>>
           draws == QueryDraws(qcfg, ordinal)
       IN
       \E draw_exceeds \in (IF draws THEN Recall(qdraws, key, BOOLEAN) ELSE {FALSE}) :
       LET answer == GetSpatialNeighborPixelIndex(ordinal, qcfg.reused_neighbors_count,
                         qcfg.center, NormRes, qcfg.offsets[ordinal], FALSE, qcfg.adaptive,
                         qcfg.allow_converged_neighbors_reuse, draw_exceeds,
                         QueryPixel(qcfg, ordinal) \in qcfg.converged)
       IN
       /\ qdraws' = IF draws THEN (key :> draw_exceeds) @@ qdraws ELSE qdraws
       /\ qanswers' = (ordinal :> ((IF ordinal \in DOMAIN qanswers THEN qanswers[ordinal]
                                     ELSE {}) \cup {answer})) @@ qanswers
    /\ IF qordinal = qcfg.reused_neighbors_count
       THEN qasker' = NextAsker(asker) /\ qordinal' = 0
       ELSE qasker' = asker /\ qordinal' = qordinal + 1
    /\ UNCHANGED <<qcfg, qrng>>

\* The query of the resampling loop.
QueryFromResampling == Query("resampling")

\* The query of the MIS-weight computation.
QueryFromMISWeight == Query("mis_weight")

\* The query of get_normalization.
QueryFromNormalization == Query("normalization")

\* The worker draws a random number of its own (for a combine, say).
QueryConsume ==
    /\ qasker \in {"resampling", "mis_weight", "normalization"}
    /\ qrng < MaxConsumed
    /\ qrng' = qrng + 1
    /\ UNCHANGED <<qcfg, qdraws, qasker, qordinal, qanswers>>

(***************************************************************************)
(* The host loop of RenderWindow: the dirty flag, the frame in flight on   *)
(* the GPU, the GPU stall and the sample counter.  Times are whole         *)
(* milliseconds.  The renderer object is not part of the sources at hand:  *)
(* its reset() restarts at sample 0 and its render() queues one frame and  *)
(* advances the sample counter, as the specification describes.  The loop  *)
(* is modelled while the window stays open.                                *)
(***************************************************************************)
VARIABLES hostpc, render_dirty, frame_in_flight, GPU_stall_duration_left,
          sample_number, last_delta_time_ms, rendering_stopped,
          max_sample_count, hostlast

rvars == <<hostpc, render_dirty, frame_in_flight, GPU_stall_duration_left,
           sample_number, last_delta_time_ms, rendering_stopped,
           max_sample_count, hostlast>>

\* Longest GPU stall computed after a frame, in milliseconds.
MaxStall == 2

\* Longest duration of one iteration of the loop, in milliseconds.
MaxDelta == 2

\* Largest sample count of a render.
MaxSamples == 2

\* What the last call of render() did.
NoRender ==
    [branch |-> "none", dirty_at_entry |-> FALSE, reset |-> FALSE,
     dirty_at_launch |-> FALSE, launch_sample |-> -1,
     reported_done |-> FALSE, sample_at_report |-> 0]

\* is_rendering_done() without its last statement: `stopped` stands for
\* "no ray active, or enough pixels converged, or the render time is over".
IsRenderingDoneIgnoringReset(sample, stopped, max_samples) ==
    stopped \/ (max_samples # 0 /\ sample + 1 > max_samples)

\* is_rendering_done(): a render at 0 samples was just reset and is not done.
IsRenderingDone(sample, stopped, max_samples) ==
    /\ stopped \/ (max_samples # 0 /\ sample + 1 > max_samples)
    /\ sample > 0

\* The state is_rendering_done() reads, at this point of the loop.
RenderingDone == IsRenderingDone(sample_number, rendering_stopped, max_sample_count)

\* The state after construction: the constructor marks the render dirty "to
\* force a cleanup at startup"; no frame has been queued yet.
HostInit ==
    /\ hostpc = "poll"
    /\ render_dirty = TRUE
    /\ frame_in_flight = FALSE
    /\ GPU_stall_duration_left = 0
    /\ sample_number = 0
    /\ last_delta_time_ms = 1
    /\ rendering_stopped = FALSE
    /\ max_sample_count \in 0..MaxSamples
    /\ hostlast = NoRender

HostOff ==
    /\ hostpc = "off"
    /\ render_dirty = FALSE
    /\ frame_in_flight = FALSE
    /\ GPU_stall_duration_left = 0
    /\ sample_number = 0
    /\ last_delta_time_ms = 1
    /\ rendering_stopped = FALSE
    /\ max_sample_count = 0
    /\ hostlast = NoRender

\* run(), up to the call of render(): the events polled (a setting changed,
\* the camera moved, the window resized) and is_interacting() mark the render
\* dirty.  The duration of the previous iteration and the stopping conditions
\* fed by the clock and by the status buffers are inputs.
HostPollEvents ==
    /\ hostpc = "poll"
    /\ \E marked \in BOOLEAN : render_dirty' = (render_dirty \/ marked)
    /\ last_delta_time_ms' \in 1..MaxDelta
    /\ rendering_stopped' \in BOOLEAN
    /\ hostpc' = "render"
    /\ UNCHANGED <<frame_in_flight, GPU_stall_duration_left, sample_number,
                   max_sample_count, hostlast>>

\* render() while the frame in flight is not done: nothing happens.
HostRenderWaits ==
    /\ hostpc = "render"
    /\ frame_in_flight
    /\ hostlast' = [NoRender EXCEPT !.branch = "wait",
                                    !.dirty_at_entry = render_dirty]
    /\ hostpc' = "poll"
    /\ UNCHANGED <<render_dirty, frame_in_flight, GPU_stall_duration_left,
                   sample_number, last_delta_time_ms, rendering_stopped,
                   max_sample_count>>

\* render(), first branch: the GPU is being stalled.
HostRenderStalls ==
    /\ hostpc = "render"
    /\ ~frame_in_flight
    /\ GPU_stall_duration_left > 0 /\ ~RenderingDone
    /\ GPU_stall_duration_left' = GPU_stall_duration_left - last_delta_time_ms
    /\ hostlast' = [NoRender EXCEPT !.branch = "stall",
                                    !.dirty_at_entry = render_dirty,
                                    !.reported_done = RenderingDone,
                                    !.sample_at_report = sample_number]
    /\ hostpc' = "poll"
    /\ UNCHANGED <<render_dirty, frame_in_flight, sample_number,
                   last_delta_time_ms, rendering_stopped, max_sample_count>>

\* reset_render(), on the pair <<render_dirty, sample_number>>.
ResetRenderKeepingSamples(dirty, sample) == <<FALSE, sample>>

ResetRender(dirty, sample) == <<FALSE, 0>>

\* render(), second branch: the frame is displayed, the render is reset if it
\* is dirty, and the next frame is queued.
HostRenderLaunches ==
    /\ hostpc = "render"
    /\ ~frame_in_flight
    /\ ~(GPU_stall_duration_left > 0 /\ ~RenderingDone)
    /\ ~RenderingDone \/ render_dirty
    /\ GPU_stall_duration_left' \in 0..MaxStall
    /\ LET after == IF render_dirty
                    THEN ResetRender(render_dirty, sample_number)
                    ELSE <<render_dirty, sample_number>>
       IN  /\ render_dirty' = after[1]
           /\ frame_in_flight' = TRUE
           /\ sample_number' = Min(after[2] + 1, MaxSamples)
           /\ hostlast' = [branch |-> "launch",
                           dirty_at_entry |-> render_dirty,
                           reset |-> render_dirty,
                           dirty_at_launch |-> after[1],
                           launch_sample |-> after[2],
                           reported_done |-> RenderingDone,
                           sample_at_report |-> sample_number]
    /\ hostpc' = "poll"
    /\ UNCHANGED <<last_delta_time_ms, rendering_stopped, max_sample_count>>

\* render(), last branch: the rendering is done.
HostRenderIdles ==
    /\ hostpc = "render"
    /\ ~frame_in_flight
    /\ ~(GPU_stall_duration_left > 0 /\ ~RenderingDone)
    /\ ~(~RenderingDone \/ render_dirty)
    /\ hostlast' = [NoRender EXCEPT !.branch = "idle",
                                    !.dirty_at_entry = render_dirty,
                                    !.reported_done = RenderingDone,
                                    !.sample_at_report = sample_number]
    /\ hostpc' = "poll"
    /\ UNCHANGED <<render_dirty, frame_in_flight, GPU_stall_duration_left,
                   sample_number, last_delta_time_ms, rendering_stopped,
                   max_sample_count>>

\* The GPU finishes the frame in flight.
HostFrameCompletes ==
    /\ hostpc \in {"poll", "render"}
    /\ frame_in_flight
    /\ frame_in_flight' = FALSE
    /\ UNCHANGED <<hostpc, render_dirty, GPU_stall_duration_left,
                   sample_number, last_delta_time_ms, rendering_stopped,
                   max_sample_count, hostlast>>

\* One step of the thread that runs the loop.
HostLoop ==
    \/ HostPollEvents
    \/ HostRenderWaits
    \/ HostRenderStalls
    \/ HostRenderLaunches
    \/ HostRenderIdles

(***************************************************************************)
(* The seeding of the random generator of each worker of the spatial reuse *)
(* kernel.  A 32-bit unsigned integer is a pair <<high, low>> of 16-bit    *)
(* halves, so that products wrap as they do on the device.                 *)
(***************************************************************************)
VARIABLES sframe, sinput

svars == <<sframe, sinput>>

\* Largest pixel index of the frame.
MaxPixelIndex == 3

\* Largest sample number of the frame.
MaxSampleNumber == 3

Half == 2^16

Quarter == 2^8

\* The 32-bit value of a small natural number.
U32(n) == <<(n \div Half) % Half, n % Half>>

\* The 32-bit product of two 16-bit halves, as <<high, low>>.
MulHalves(a, b) ==
    LET a1 == a \div Quarter
        a0 == a % Quarter
        b1 == b \div Quarter
        b0 == b % Quarter
        low == (a1 * b0 + a0 * b1) * Quarter + a0 * b0
    IN  <<(a1 * b1 + low \div Half) % Half, low % Half>>

\* x * y in 32-bit unsigned arithmetic.
Mul32(x, y) ==
    LET ll == MulHalves(x[2], y[2])
        hl == MulHalves(x[1], y[2])
        lh == MulHalves(x[2], y[1])
    IN  <<(ll[1] + hl[2] + lh[2]) % Half, ll[2]>>

\* The global seeds a frame is rendered with: 1, 3, 0x9E3779B9, 2^30, 2^31.
RandomSeeds == {<<0, 1>>, <<0, 3>>, <<40503, 31161>>, <<16384, 0>>, <<32768, 0>>}

SeedFrames ==
    [freeze_random : BOOLEAN,
     sample_number : 0..MaxSampleNumber,
     random_seed : RandomSeeds]

NoSeedFrame == [freeze_random |-> FALSE, sample_number |-> 0, random_seed |-> <<0, 0>>]

\* The argument of wang_hash in the kernel.
SeedHashInput(pixel_index, frame) ==
    IF frame.freeze_random
    THEN U32(pixel_index + 1)
    ELSE Mul32(Mul32(U32(pixel_index + 1), U32(frame.sample_number + 1)),
               frame.random_seed)

\* A frame is launched; no worker has run yet.
SeedInit ==
    /\ sframe \in SeedFrames
    /\ sinput = <<>>

SeedOff ==
    /\ sframe = NoSeedFrame
    /\ sinput = <<>>

\* The worker of one pixel initializes its generator.
SeedWorker ==
    \E pixel_index \in (0..MaxPixelIndex) \ DOMAIN sinput :
        /\ sinput' = sinput @@ (pixel_index :> SeedHashInput(pixel_index, sframe))
        /\ UNCHANGED sframe

vars == <<kvars, gvars, ivars, hvars, nvars, tvars, visvars, jvars, fvars, qvars, rvars, svars>>

\* One worker of the spatial reuse kernel.
Init == KernelInit /\ GridOff /\ IndexOff /\ HeurOff /\ NormOff /\ TemporalOff /\ VisOff /\ JacobianOff /\ TargetOff /\ QueryOff /\ HostOff /\ SeedOff

Next ==
    \/ KernelEnter /\ UNCHANGED <<gvars, ivars, hvars, nvars, tvars, visvars, jvars, fvars, qvars, rvars, svars>>
    \/ KernelResample /\ UNCHANGED <<gvars, ivars, hvars, nvars, tvars, visvars, jvars, fvars, qvars, rvars, svars>>
    \/ KernelNormalize /\ UNCHANGED <<gvars, ivars, hvars, nvars, tvars, visvars, jvars, fvars, qvars, rvars, svars>>
    \/ KernelFinish /\ UNCHANGED <<gvars, ivars, hvars, nvars, tvars, visvars, jvars, fvars, qvars, rvars, svars>>

Spec == Init /\ [][Next]_vars

\* The passes of a frame over the launch grid.
InitGrid == GridInit /\ KernelOff /\ IndexOff /\ HeurOff /\ NormOff /\ TemporalOff /\ VisOff /\ JacobianOff /\ TargetOff /\ QueryOff /\ HostOff /\ SeedOff

NextGrid ==
    \/ GridInitialCandidates /\ UNCHANGED <<kvars, ivars, hvars, nvars, tvars, visvars, jvars, fvars, qvars, rvars, svars>>
    \/ GridVisibilityReuse /\ UNCHANGED <<kvars, ivars, hvars, nvars, tvars, visvars, jvars, fvars, qvars, rvars, svars>>
    \/ GridTemporalReuse /\ UNCHANGED <<kvars, ivars, hvars, nvars, tvars, visvars, jvars, fvars, qvars, rvars, svars>>
    \/ GridThreadReturns /\ UNCHANGED <<kvars, ivars, hvars, nvars, tvars, visvars, jvars, fvars, qvars, rvars, svars>>
    \/ GridThreadRuns /\ UNCHANGED <<kvars, ivars, hvars, nvars, tvars, visvars, jvars, fvars, qvars, rvars, svars>>
    \/ GridBarrier /\ UNCHANGED <<kvars, ivars, hvars, nvars, tvars, visvars, jvars, fvars, qvars, rvars, svars>>
    \/ GridFinalShading /\ UNCHANGED <<kvars, ivars, hvars, nvars, tvars, visvars, jvars, fvars, qvars, rvars, svars>>

SpecGrid == InitGrid /\ [][NextGrid]_vars

\* The neighbor-index functions.
InitIndex == IndexInit /\ KernelOff /\ GridOff /\ HeurOff /\ NormOff /\ TemporalOff /\ VisOff /\ JacobianOff /\ TargetOff /\ QueryOff /\ HostOff /\ SeedOff

NextIndex ==
    \/ IndexKernelCall /\ UNCHANGED <<kvars, gvars, hvars, nvars, tvars, visvars, jvars, fvars, qvars, rvars, svars>>
    \/ IndexSpatialCall /\ UNCHANGED <<kvars, gvars, hvars, nvars, tvars, visvars, jvars, fvars, qvars, rvars, svars>>

SpecIndex == InitIndex /\ [][NextIndex]_vars

\* The similarity heuristics.
InitHeur == HeurInit /\ KernelOff /\ GridOff /\ IndexOff /\ NormOff /\ TemporalOff /\ VisOff /\ JacobianOff /\ TargetOff /\ QueryOff /\ HostOff /\ SeedOff

NextHeur ==
    \/ HeurPlaneDistance /\ UNCHANGED <<kvars, gvars, ivars, nvars, tvars, visvars, jvars, fvars, qvars, rvars, svars>>
    \/ HeurNormalSimilarity /\ UNCHANGED <<kvars, gvars, ivars, nvars, tvars, visvars, jvars, fvars, qvars, rvars, svars>>
    \/ HeurRoughnessSimilarity /\ UNCHANGED <<kvars, gvars, ivars, nvars, tvars, visvars, jvars, fvars, qvars, rvars, svars>>
    \/ HeurReturn /\ UNCHANGED <<kvars, gvars, ivars, nvars, tvars, visvars, jvars, fvars, qvars, rvars, svars>>

SpecHeur == InitHeur /\ [][NextHeur]_vars

\* The normalization functions.
InitNorm == NormInit /\ KernelOff /\ GridOff /\ IndexOff /\ HeurOff /\ TemporalOff /\ VisOff /\ JacobianOff /\ TargetOff /\ QueryOff /\ HostOff /\ SeedOff

NextNorm ==
    \/ NormEnter /\ UNCHANGED <<kvars, gvars, ivars, hvars, tvars, visvars, jvars, fvars, qvars, rvars, svars>>
    \/ NormVisit /\ UNCHANGED <<kvars, gvars, ivars, hvars, tvars, visvars, jvars, fvars, qvars, rvars, svars>>
    \/ NormReturn /\ UNCHANGED <<kvars, gvars, ivars, hvars, tvars, visvars, jvars, fvars, qvars, rvars, svars>>

SpecNorm == InitNorm /\ [][NextNorm]_vars

\* The temporal neighbor search.
InitTemporal == TemporalInit /\ KernelOff /\ GridOff /\ IndexOff /\ HeurOff /\ NormOff /\ VisOff /\ JacobianOff /\ TargetOff /\ QueryOff /\ HostOff /\ SeedOff

NextTemporal ==
    \/ TemporalProbe /\ UNCHANGED <<kvars, gvars, ivars, hvars, nvars, visvars, jvars, fvars, qvars, rvars, svars>>
    \/ TemporalReturn /\ UNCHANGED <<kvars, gvars, ivars, hvars, nvars, visvars, jvars, fvars, qvars, rvars, svars>>

SpecTemporal == InitTemporal /\ [][NextTemporal]_vars

\* ReSTIR_DI_visibility_reuse on its own.
InitVis == VisInit /\ KernelOff /\ GridOff /\ IndexOff /\ HeurOff /\ NormOff /\ TemporalOff /\ JacobianOff /\ TargetOff /\ QueryOff /\ HostOff /\ SeedOff

NextVis ==
    \/ VisApply /\ UNCHANGED <<kvars, gvars, ivars, hvars, nvars, tvars, jvars, fvars, qvars, rvars, svars>>

SpecVis == InitVis /\ [][NextVis]_vars

\* The reconnection jacobian on its own.
InitJacobian == JacobianInit /\ KernelOff /\ GridOff /\ IndexOff /\ HeurOff /\ NormOff /\ TemporalOff /\ VisOff /\ TargetOff /\ QueryOff /\ HostOff /\ SeedOff

NextJacobian ==
    \/ JacobianCall /\ UNCHANGED <<kvars, gvars, ivars, hvars, nvars, tvars, visvars, fvars, qvars, rvars, svars>>
    \/ JacobianBranch /\ UNCHANGED <<kvars, gvars, ivars, hvars, nvars, tvars, visvars, fvars, qvars, rvars, svars>>

SpecJacobian == InitJacobian /\ [][NextJacobian]_vars

\* The target function on its own.
InitTarget == TargetInit /\ KernelOff /\ GridOff /\ IndexOff /\ HeurOff /\ NormOff /\ TemporalOff /\ VisOff /\ JacobianOff /\ QueryOff /\ HostOff /\ SeedOff

NextTarget ==
    \/ TargetCheckSample /\ UNCHANGED <<kvars, gvars, ivars, hvars, nvars, tvars, visvars, jvars, qvars, rvars, svars>>
    \/ TargetCosine /\ UNCHANGED <<kvars, gvars, ivars, hvars, nvars, tvars, visvars, jvars, qvars, rvars, svars>>
    \/ TargetShade /\ UNCHANGED <<kvars, gvars, ivars, hvars, nvars, tvars, visvars, jvars, qvars, rvars, svars>>
    \/ TargetShadowRay /\ UNCHANGED <<kvars, gvars, ivars, hvars, nvars, tvars, visvars, jvars, qvars, rvars, svars>>

SpecTarget == InitTarget /\ [][NextTarget]_vars

\* The neighbor-index queries of one worker.
InitQuery == QueryInit /\ KernelOff /\ GridOff /\ IndexOff /\ HeurOff /\ NormOff /\ TemporalOff /\ VisOff /\ JacobianOff /\ TargetOff /\ HostOff /\ SeedOff

NextQuery ==
    \/ QueryFromResampling /\ UNCHANGED <<kvars, gvars, ivars, hvars, nvars, tvars, visvars, jvars, fvars, rvars, svars>>
    \/ QueryFromMISWeight /\ UNCHANGED <<kvars, gvars, ivars, hvars, nvars, tvars, visvars, jvars, fvars, rvars, svars>>
    \/ QueryFromNormalization /\ UNCHANGED <<kvars, gvars, ivars, hvars, nvars, tvars, visvars, jvars, fvars, rvars, svars>>
    \/ QueryConsume /\ UNCHANGED <<kvars, gvars, ivars, hvars, nvars, tvars, visvars, jvars, fvars, rvars, svars>>

SpecQuery == InitQuery /\ [][NextQuery]_vars

\* The host loop and the GPU queue.  The loop keeps running while the window
\* is open, and the GPU finishes every frame it was given.
InitHost == HostInit /\ KernelOff /\ GridOff /\ IndexOff /\ HeurOff /\ NormOff /\ TemporalOff /\ VisOff /\ JacobianOff /\ TargetOff /\ QueryOff /\ SeedOff

NextHost ==
    \/ HostPollEvents /\ UNCHANGED <<kvars, gvars, ivars, hvars, nvars, tvars, visvars, jvars, fvars, qvars, svars>>
    \/ HostRenderWaits /\ UNCHANGED <<kvars, gvars, ivars, hvars, nvars, tvars, visvars, jvars, fvars, qvars, svars>>
    \/ HostRenderStalls /\ UNCHANGED <<kvars, gvars, ivars, hvars, nvars, tvars, visvars, jvars, fvars, qvars, svars>>
    \/ HostRenderLaunches /\ UNCHANGED <<kvars, gvars, ivars, hvars, nvars, tvars, visvars, jvars, fvars, qvars, svars>>
    \/ HostRenderIdles /\ UNCHANGED <<kvars, gvars, ivars, hvars, nvars, tvars, visvars, jvars, fvars, qvars, svars>>
    \/ HostFrameCompletes /\ UNCHANGED <<kvars, gvars, ivars, hvars, nvars, tvars, visvars, jvars, fvars, qvars, svars>>

SpecHost == InitHost /\ [][NextHost]_vars

\* The same with its scheduling: the loop thread always takes its next step,
\* and a frame in flight is eventually finished.
SpecHostFair ==
    /\ SpecHost
    /\ WF_vars(HostLoop /\ UNCHANGED <<kvars, gvars, ivars, hvars, nvars, tvars, visvars, jvars, fvars, qvars, svars>>)
    /\ WF_vars(HostFrameCompletes /\ UNCHANGED <<kvars, gvars, ivars, hvars, nvars, tvars, visvars, jvars, fvars, qvars, svars>>)

\* The workers of one frame seeding their generators.
InitSeed == SeedInit /\ KernelOff /\ GridOff /\ IndexOff /\ HeurOff /\ NormOff /\ TemporalOff /\ VisOff /\ JacobianOff /\ TargetOff /\ QueryOff /\ HostOff

NextSeed ==
    \/ SeedWorker /\ UNCHANGED <<kvars, gvars, ivars, hvars, nvars, tvars, visvars, jvars, fvars, qvars, rvars>>

SpecSeed == InitSeed /\ [][NextSeed]_vars

(***************************************************************************)
(* Properties of the spatial reuse kernel.                                 *)
(***************************************************************************)
\* Sum of the input reservoirs' M over the neighbor ordinals below n whose
\* pixel index is valid.
InputMBelow(n) ==
    SumUpTo([j \in 0..cfg.reuse |->
                IF j < n /\ idxOf[j] # -1 THEN input[idxOf[j]].M ELSE 0], cfg.reuse)

\* C1: the reservoir's M before the M-cap is the sum of the input reservoirs' M
\* over every neighbor ordinal 0..reuse_count with a valid pixel index, whatever
\* the neighbor's UCW, target function at the center or jacobian, and whatever
\* the random draws; M is never negative.
C1_PreCapMIsSumOfValidInputM ==
    /\ new_reservoir.M >= 0
    /\ pc = "loop" => new_reservoir.M = InputMBelow(neighbor)
    /\ pc = "finish" => new_reservoir.M = InputMBelow(cfg.reuse + 1)
    /\ pc = "done" => tail.preCapM = InputMBelow(cfg.reuse + 1)

\* A finished worker whose first neighbor had its jacobian rejected and whose own
\* reservoir was marked occluded: both count in the pre-cap M.
C1_Witness ==
    /\ pc = "done"
    /\ \E i, j \in DOMAIN log :
          /\ log[i].path = "jacobian"
          /\ log[j].path = "combined" /\ input[log[j].index].UCW = MinusOne
          /\ i # j
          /\ tail.preCapM = log[i].M + log[j].M

\* C2: a written reservoir has M = min(m_cap, pre-cap M), hence M <= m_cap, when
\* m_cap > 0, and the pre-cap M when m_cap = 0; the end-of-pass visibility step
\* leaves the capped M unchanged.
C2_WrittenMIsCapped ==
    pc = "done" =>
        \A slot \in DOMAIN output :
            /\ tail.m_cap > 0 => /\ output[slot].M <= tail.m_cap
                                 /\ output[slot].M = Min(tail.m_cap, tail.preCapM)
            /\ tail.m_cap = 0 => output[slot].M = tail.preCapM
            /\ output[slot].M = tail.cappedM

\* A worker whose pre-cap M exceeded the cap and whose visibility step found the
\* sample occluded.
C2_Witness ==
    /\ pc = "done"
    /\ tail.m_cap > 0
    /\ tail.preCapM > tail.m_cap
    /\ tail.visibility = "occluded"
    /\ output[center_pixel_index].M = tail.m_cap

\* The iteration just logged took neighbor reservoir r through a non-contributing
\* branch: UCW <= 0, or jacobian rejected.
NonContributing(entry, r) ==
    entry.path # "invalid" /\ (RLeq(r.UCW, Zero) \/ entry.path = "jacobian")

\* C5: an iteration over a neighbor with UCW <= 0 or with a rejected jacobian
\* leaves weight_sum, the selected sample and selected_neighbor unchanged, adds
\* the neighbor's M, and the loop goes on with the next ordinal.
C5_NonContributingNeighbor ==
    [][(pc = "loop" /\ Len(log') = Len(log) + 1
        /\ NonContributing(log'[Len(log')], input'[idxOf[neighbor]]))
       => /\ new_reservoir'.weight_sum = new_reservoir.weight_sum
          /\ new_reservoir'.sample = new_reservoir.sample
          /\ selected_neighbor' = selected_neighbor
          /\ new_reservoir'.M = new_reservoir.M + input'[idxOf[neighbor]].M
          /\ pc' = "loop"
          /\ neighbor' = neighbor + 1]_vars

\* Every kind of non-contributing neighbor has been met by one worker or
\* another; here: a rejected jacobian followed by an occluded own reservoir.
C5_Witness ==
    /\ pc = "loop"
    /\ Len(log) = 2
    /\ log[1].path = "jacobian"
    /\ log[1].M > 0
    /\ log[2].path = "combined"
    /\ input[log[2].index].UCW = MinusOne
    /\ new_reservoir.M = log[1].M + log[2].M
    /\ new_reservoir.weight_sum = Zero

\* C7: the loop visits the ordinals 0, 1, ..., reuse_count in increasing order,
\* each once, and the last ordinal maps to the center pixel, never to -1,
\* whatever the disk offset, the debug and adaptive-sampling settings and the
\* converged state of the pixel are.
C7_LoopOrder ==
    /\ \A i \in DOMAIN log : log[i].neighbor = i - 1
    /\ pc = "loop" => Len(log) = neighbor /\ neighbor <= cfg.reuse + 1
    /\ pc \in {"finish", "done"} =>
          /\ Len(log) = cfg.reuse + 1
          /\ log[cfg.reuse + 1].index = center_pixel_index
          /\ log[cfg.reuse + 1].path # "invalid"
    /\ (pc = "loop" /\ neighbor = cfg.reuse) =>
          \A offset \in DiskOffsets(MaxRadius) :
              /\ GetNeighborPixelIndex(neighbor, cfg.reuse, center_pixel_coords, cfg.res,
                                       offset) = center_pixel_index
              /\ \A debug, adaptive, allow, draw_exceeds, converged \in BOOLEAN :
                     GetSpatialNeighborPixelIndex(neighbor, cfg.reuse, center_pixel_coords,
                         cfg.res, offset, debug, adaptive, allow, draw_exceeds, converged)
                     = center_pixel_index

\* A finished worker whose first neighbor was outside the viewport.
C7_Witness ==
    /\ pc = "done"
    /\ cfg.reuse = MaxReuse
    /\ log[1].path = "invalid"
    /\ log[cfg.reuse + 1].index = center_pixel_index

(***************************************************************************)
(* Properties of the passes over the launch grid.                          *)
(***************************************************************************)
\* The thread that owns a slot of the output buffer: the one of that pixel.
OwnerOfSlot(slot, res) == <<slot % res[1], slot \div res[1]>>

\* C3: in a spatial pass every write goes to the output buffer, into the slot
\* of the writing thread's own pixel; threads with x >= width or y >= height
\* write nothing; once the launch has finished every slot has been written by
\* exactly one thread.  For every launch grid of Renderer::launch_kernel.
C3_OnlyOwnerWritesSlot ==
    gphase = "SpatialReuse" =>
        /\ \A w \in gwrites :
              /\ w.buffer = gsettings.output_reservoirs
              /\ w.buffer # gsettings.input_reservoirs
              /\ w.thread[1] < gres[1] /\ w.thread[2] < gres[2]
              /\ w.thread = OwnerOfSlot(w.slot, gres)
        /\ \A w1, w2 \in gwrites : w1.slot = w2.slot => w1.thread = w2.thread
        /\ LaunchFinished =>
              \A slot \in 0..(gres[1] * gres[2] - 1) :
                  Cardinality({w \in gwrites : w.slot = slot}) = 1

\* The passes a frame with n spatial passes completes, in order.
PassOrder(n) ==
    <<<<"InitialCandidates", 0>>, <<"VisibilityReuse", 0>>, <<"TemporalReuse", 0>>>>
        \o [k \in 1..n |-> <<"SpatialReuse", k>>]
        \o <<<<"FinalShading", 0>>>>

\* The pass that must have completely written what spatial pass k reads.
ProducerOf(k) == IF k = 1 THEN <<"TemporalReuse", 0>> ELSE <<"SpatialReuse", k - 1>>

\* C4: the passes complete in the order InitialCandidates, VisibilityReuse,
\* TemporalReuse, SpatialReuse 1..N, FinalShading; a thread of spatial pass k
\* reads only a buffer the pass before has completely written, never the
\* buffer its pass writes; final shading reads what spatial pass N wrote.
C4_PassOrderAndBuffers ==
    /\ Len(ghistory) <= Len(PassOrder(gpasses))
    /\ \A i \in DOMAIN ghistory : ghistory[i] = PassOrder(gpasses)[i]
    /\ gphase = "SpatialReuse" =>
          /\ \A b \in greads : gfilled[b] = ProducerOf(gpass)
          /\ \A b \in greads : \A w \in gwrites : w.buffer # b
    /\ gphase = "FrameDone" =>
          /\ ghistory = PassOrder(gpasses)
          /\ \A b \in greads : gfilled[b] = <<"SpatialReuse", gpasses>>

\* A frame with several spatial passes has been shaded.
C4_Witness ==
    /\ gphase = "FrameDone"
    /\ gpasses = MaxPasses
    /\ gpasses > 1
    /\ greads # {}
    /\ Len(ghistory) = 4 + gpasses

(***************************************************************************)
(* Properties of the neighbor-index functions.                             *)
(***************************************************************************)
InsideViewport(coords, res) ==
    0 <= coords[1] /\ coords[1] < res[1] /\ 0 <= coords[2] /\ coords[2] < res[2]

\* C6: for a center pixel inside the viewport, both neighbor-index functions
\* return -1 or the linear index of a pixel whose coordinates lie in
\* [0,width) x [0,height), so 0 <= index < width * height; with the debug
\* neighbor location too.
C6_IndexInViewport ==
    (ipc = "done" /\ InsideViewport(icfg.center, icfg.res)) =>
        \/ iresult.index = -1
        \/ /\ InsideViewport(iresult.coords, icfg.res)
           /\ iresult.index = iresult.coords[1] + iresult.coords[2] * icfg.res[1]
           /\ 0 <= iresult.index
           /\ iresult.index < icfg.res[1] * icfg.res[2]

\* The debug neighbor location landed inside the viewport, on a pixel that is
\* not the center.
C6_Witness ==
    /\ ipc = "done"
    /\ InsideViewport(icfg.center, icfg.res)
    /\ iresult.debug_neighbor_location
    /\ iresult.index # -1
    /\ iresult.coords = <<icfg.center[1] + 15, icfg.center[2]>>

(***************************************************************************)
(* Properties of the similarity heuristics.                                *)
(***************************************************************************)
\* The threshold tests themselves.
PlaneDistanceTest(settings, g) == g.distance_to_plane < settings.plane_distance_threshold

NormalSimilarityTest(settings, g) == g.normal_dot > settings.normal_similarity_angle_precomp

RoughnessSimilarityTest(settings, g) ==
    Abs(g.neighbor_roughness - g.center_roughness) < settings.roughness_similarity_threshold

\* A neighbor is admitted exactly when every enabled heuristic passes its test.
EveryEnabledHeuristicPasses(settings, g) ==
    /\ settings.use_plane_distance_heuristic => PlaneDistanceTest(settings, g)
    /\ settings.use_normal_similarity_heuristic => NormalSimilarityTest(settings, g)
    /\ settings.use_roughness_similarity_heuristic => RoughnessSimilarityTest(settings, g)

\* C8: the similarity check returns true exactly when every enabled heuristic
\* passes its threshold test; each of the three heuristics passes when it is
\* disabled and gives the result of its test when it is enabled.
C8_EnabledHeuristicsApplied ==
    /\ hpc \in {"normal", "roughness", "return", "done"} =>
          hpassed.plane_distance =
              (hsettings.use_plane_distance_heuristic => PlaneDistanceTest(hsettings, hgeometry))
    /\ hpc \in {"roughness", "return", "done"} =>
          hpassed.normal_similarity =
              (hsettings.use_normal_similarity_heuristic
                   => NormalSimilarityTest(hsettings, hgeometry))
    /\ hpc \in {"return", "done"} =>
          hpassed.roughness_similarity =
              (hsettings.use_roughness_similarity_heuristic
                   => RoughnessSimilarityTest(hsettings, hgeometry))
    /\ hpc = "done" => hresult = EveryEnabledHeuristicPasses(hsettings, hgeometry)

(***************************************************************************)
(* Properties of the normalization.                                        *)
(***************************************************************************)
\* C10: when the final reservoir's weight_sum is <= 0 at normalization time,
\* every bias-correction mode, in both normalization functions, returns
\* numerator 1 and denominator 1 without entering its loop: no neighbor is
\* visited and no target function is evaluated.
C10_InvalidReservoirShortCircuits ==
    (npc # "enter" /\ RLeq(ncfg.final_reservoir.weight_sum, Zero))
        => /\ npc = "done"
           /\ nacc.nume = One
           /\ nacc.denom = One
           /\ nacc.visited = {}
           /\ nacc.evals = 0
           /\ nscene = NoScene

\* A call of get_normalization in a mode that loops, with neighbors to visit,
\* has returned for a reservoir whose weight_sum is 0.
C10_Witness ==
    /\ npc = "done"
    /\ ncfg.mode = RESTIR_DI_BIAS_CORRECTION_MIS_LIKE_CONFIDENCE_WEIGHTS
    /\ ncfg.reused_neighbors_count >= 1
    /\ ncfg.final_reservoir.weight_sum = Zero
    /\ nacc.nume = One /\ nacc.denom = One

(***************************************************************************)
(* Properties of the temporal neighbor search.                             *)
(***************************************************************************)
\* Is probe i inside the viewport and admitted by the similarity heuristics,
\* every enabled heuristic passing its test?
ProbeAdmitted(i) ==
    /\ InsideViewport(tprobes[i].pos, TemporalRes)
    /\ EveryEnabledHeuristicPasses(tcfg.settings,
           tgeometry[tprobes[i].pos[1] + tprobes[i].pos[2] * TemporalRes[1]])

\* C9: the search probes at most max_search_count + 1 pixels, the first with
\* zero jitter; it returns the first probed pixel that is inside the viewport
\* and passes the similarity heuristics and probes no further; it returns -1
\* if no probe is admitted; a returned index is in [0, width*height).
C9_FirstAdmittedProbeReturned ==
    tpc = "done" =>
        /\ Len(tprobes) <= tcfg.max_neighbor_search_count + 1
        /\ Len(tprobes) >= 1 /\ tprobes[1].offset = <<0, 0>>
        /\ \A i \in 1..Len(tprobes) : ProbeAdmitted(i) =>
               /\ i = Len(tprobes)
               /\ temporal_neighbor_index = tprobes[i].pos[1] + tprobes[i].pos[2] * TemporalRes[1]
        /\ (\A i \in 1..Len(tprobes) : ~ProbeAdmitted(i)) =>
               /\ temporal_neighbor_index = -1
               /\ Len(tprobes) = tcfg.max_neighbor_search_count + 1
        /\ temporal_neighbor_index # -1 =>
               temporal_neighbor_index \in 0..(TemporalRes[1] * TemporalRes[2] - 1)

(***************************************************************************)
(* Properties of the normalized reservoir.                                 *)
(***************************************************************************)
\* C11: after the normalization of the spatial pass, a denominator <= 0 or a
\* zero target function of the selected sample gives UCW = 0, in the
\* normalized reservoir and in the written one; the written UCW is never NaN
\* or infinite.
C11_DegenerateNormalizationZeroesUCW ==
    /\ pc \in {"finish", "done"} =>
          /\ IsFinite(new_reservoir.UCW)
          /\ (RLeq(norm.denom, Zero) \/ new_reservoir.sample.target_function = 0)
                => new_reservoir.UCW = Zero
    /\ pc = "done" =>
          /\ IsFinite(output[center_pixel_index].UCW)
          /\ (RLeq(norm.denom, Zero) \/ output[center_pixel_index].sample.target_function = 0)
                => output[center_pixel_index].UCW = Zero

\* A 1/Z worker that selected a sample, found no neighbor with a positive
\* target function for it, and wrote UCW = 0.
C11_Witness ==
    /\ pc = "done"
    /\ cfg.mode = RESTIR_DI_BIAS_CORRECTION_1_OVER_Z
    /\ RLess(Zero, norm.weight_sum)
    /\ norm.denom = Zero
    /\ output[center_pixel_index].sample.kind # "none"
    /\ output[center_pixel_index].UCW = Zero

(***************************************************************************)
(* Properties of the normalization pairs.                                  *)
(***************************************************************************)
\* Is the neighbor of iteration i admitted by the resampling loop?  The
\* kernel's loop admits every neighbor inside the viewport; the loop of
\* get_normalization's callers also asks the similarity heuristics, every
\* enabled one having to pass.
LoopAdmits(i) ==
    /\ nlog[i].index # -1
    /\ ncfg.variant = "struct" =>
          EveryEnabledHeuristicPasses(ncfg.settings, nscene.geometry[nlog[i].index])

\* The same with the heuristics as check_neighbor_similarity_heuristics
\* computes them.
CodeAdmits(i) == nlog[i].index # -1 /\ nlog[i].admitted

\* M of the input reservoir of iteration i, 0 if the call never read it.
InputMOf(i) ==
    IF nlog[i].index \in DOMAIN nscene.M THEN nscene.M[nlog[i].index] ELSE 0

\* Sum of term(i) over the iterations 1..n.
RECURSIVE SumOverVisits(_, _)
SumOverVisits(term(_), n) == IF n = 0 THEN 0 ELSE term(n) + SumOverVisits(term, n - 1)

\* A call in the given mode has returned for a reservoir with weight_sum > 0.
ReturnedIn(mode) ==
    /\ npc = "done"
    /\ ncfg.mode = mode
    /\ RLess(Zero, ncfg.final_reservoir.weight_sum)

\* C12: in 1/M mode with weight_sum > 0 the numerator is 1 and the denominator
\* is the sum of the input reservoirs' M over exactly the neighbors the
\* resampling loop admits, the center pixel included.
C12_OneOverMSumsAdmittedM ==
    ReturnedIn(RESTIR_DI_BIAS_CORRECTION_1_OVER_M) =>
        LET term(i) == IF LoopAdmits(i) THEN InputMOf(i) ELSE 0 IN
        /\ nacc.nume = One
        /\ Len(nlog) = ncfg.reused_neighbors_count + 1
        /\ LoopAdmits(Len(nlog))
        /\ \A i \in 1..Len(nlog) : nlog[i].readsM <=> LoopAdmits(i)
        /\ nacc.denom = R(SumOverVisits(term, Len(nlog)))


\* The target function of the final sample at the neighbor of iteration i, as
\* the call evaluated it.
TargetFunctionAt(i) == IF nlog[i].evaluated THEN nlog[i].tf ELSE 0

\* The call evaluates the target function at every neighbor the resampling
\* loop admits, the center pixel (the last iteration) among them.
AdmittedNeighborsEvaluated ==
    /\ Len(nlog) = ncfg.reused_neighbors_count + 1
    /\ LoopAdmits(Len(nlog))
    /\ \A i \in 1..Len(nlog) : LoopAdmits(i) <=> nlog[i].evaluated

\* C13: in 1/Z mode the numerator is 1 and the denominator is the sum of M
\* over the admitted neighbors (center included) at which the target function
\* of the final sample is positive.
C13_OneOverZSumsMWherePositive ==
    ReturnedIn(RESTIR_DI_BIAS_CORRECTION_1_OVER_Z) =>
        LET term(i) == IF LoopAdmits(i) /\ TargetFunctionAt(i) > 0 THEN InputMOf(i) ELSE 0 IN
        /\ nacc.nume = One
        /\ AdmittedNeighborsEvaluated
        /\ \A i \in 1..Len(nlog) : nlog[i].readsM <=> (LoopAdmits(i) /\ TargetFunctionAt(i) > 0)
        /\ nacc.denom = R(SumOverVisits(term, Len(nlog)))

\* C14: in MIS-like mode the denominator is the sum of the target function of
\* the final sample over the admitted neighbors, the numerator is the target
\* function at the neighbor the sample was selected from, and
\* 0 <= nume <= denom.
C14_MISLikeSumsTargetFunctions ==
    ReturnedIn(RESTIR_DI_BIAS_CORRECTION_MIS_LIKE) =>
        LET term(i) == IF LoopAdmits(i) THEN TargetFunctionAt(i) ELSE 0
            s == ncfg.selected_neighbor + 1
        IN
        /\ AdmittedNeighborsEvaluated
        /\ nacc.denom = R(SumOverVisits(term, Len(nlog)))
        /\ LoopAdmits(s) => nacc.nume = R(TargetFunctionAt(s))
        /\ RLeq(Zero, nacc.nume)
        /\ RLeq(nacc.nume, nacc.denom)


\* C15: in MIS-like+confidence mode the numerator is the target function of
\* the final sample at the neighbor it was selected from, not multiplied by M,
\* and the denominator is the sum of target function * M over the neighbors
\* the implementation admits; the kernel's function and the struct's compute
\* this same pair.
C15_MISLikeConfidencePair ==
    ReturnedIn(RESTIR_DI_BIAS_CORRECTION_MIS_LIKE_CONFIDENCE_WEIGHTS) =>
        LET term(i) == IF CodeAdmits(i) THEN TargetFunctionAt(i) * InputMOf(i) ELSE 0
            s == ncfg.selected_neighbor + 1
        IN
        /\ nacc.denom = R(SumOverVisits(term, Len(nlog)))
        /\ CodeAdmits(s) => nacc.nume = R(TargetFunctionAt(s))


(***************************************************************************)
(* The generalized balance heuristic.                                      *)
(***************************************************************************)
\* tf_j(x) * c_j: the target function of sample x at the surface of neighbor
\* j, times the confidence of neighbor j.
BalanceTerm(x, j) ==
    EvaluateTargetFunction(cfg.biasVis, x, <<x.id, idxOf[j]>>, scores, rays)
        * (IF cfg.mode = RESTIR_DI_BIAS_CORRECTION_MIS_GBH_CONFIDENCE_WEIGHTS
           THEN input[idxOf[j]].M ELSE 1)

\* The sum of n over the ordinals of S.
RECURSIVE SumOverOrdinals(_, _)
SumOverOrdinals(n(_), S) ==
    IF S = {} THEN 0
    ELSE LET j == CHOOSE k \in S : TRUE IN n(j) + SumOverOrdinals(n, S \ {j})

\* C16: in the two MIS-GBH modes the normalization is (1, 1), and the
\* resampling MIS weight of neighbor i for its sample x_i is tf_i(x_i)*c_i over
\* the sum of tf_j(x_i)*c_j for all neighbors j in the viewport (center
\* included), c_j being 1 or, in the confidence variant, M of neighbor j's
\* input reservoir; the weight is 0 when the sum is 0.
C16_GeneralizedBalanceHeuristic ==
    (pc \in {"loop", "finish", "done"} /\ IsGBH(cfg.mode)) =>
        /\ pc # "loop" => (norm.nume = One /\ norm.denom = One)
        /\ \A i \in 1..Len(log) :
              log[i].weighs =>
                 LET x == input[log[i].index].sample
                     term(j) == BalanceTerm(x, j)
                     sum == SumOverOrdinals(term, ValidOrdinals(cfg.reuse, idxOf))
                 IN  IF sum = 0 THEN log[i].mis_weight = Zero
                     ELSE /\ IsFinite(log[i].mis_weight)
                          /\ log[i].mis_weight[1] * sum
                                = BalanceTerm(x, log[i].neighbor) * log[i].mis_weight[2]

\* A pass in the confidence variant has weighed a neighbor whose weight is
\* neither 0 nor 1 and which M changes.
C16_Witness ==
    /\ pc = "done"
    /\ cfg.mode = RESTIR_DI_BIAS_CORRECTION_MIS_GBH_CONFIDENCE_WEIGHTS
    /\ norm.nume = One /\ norm.denom = One
    /\ \E i \in 1..Len(log) :
          /\ log[i].weighs
          /\ RLess(Zero, log[i].mis_weight) /\ RLess(log[i].mis_weight, One)
          /\ \E j \in ValidOrdinals(cfg.reuse, idxOf) :
                input[idxOf[j]].M # input[log[i].index].M


\* C17: every target-function evaluation of the bias correction uses the
\* configured bias-correction visibility flag, in every mode and in every
\* spatial pass index.
C17_BiasCorrectionUsesConfiguredVisibility ==
    \A i \in 1..Len(nlog) : nlog[i].evaluated => (nlog[i].visibility <=> ncfg.biasVis)


(***************************************************************************)
(* The end of the pass.                                                    *)
(***************************************************************************)
\* C18: with visibility in the bias correction and more than one spatial pass
\* configured, the visibility reuse runs at the end of the pass in every
\* bias-correction mode, so that the written reservoir holds no occluded
\* sample with UCW > 0, and for an environment-map sample its answer is that
\* of the ray along the sample's stored direction.
C18_VisibilityReuseEndsEveryPass ==
    (pc = "done" /\ cfg.biasVis /\ tail.number_of_passes > 1) =>
        LET written == output[center_pixel_index]
            key == <<written.sample.id, center_pixel_index>>
        IN
        /\ tail.visibility # "none"
        /\ RLess(Zero, written.UCW) => tail.visibility = "visible"
        /\ (written.sample.kind = "envmap" /\ key \in DOMAIN rays
               /\ tail.visibility \in {"visible", "occluded"})
              => (tail.visibility = "occluded" <=> rays[key])


C20_EnvmapSamplesSkipJacobian ==
    \A i \in 1..Len(log) :
        (log[i].index # -1 /\ input[log[i].index].sample.kind = "envmap") =>
            /\ log[i].path # "jacobian"
            /\ log[i].index \notin DOMAIN jacobians


\* The ratio is a finite number of the closed range [1/JacobianClamp,
\* JacobianClamp].
WithinClamp(jacobian) ==
    /\ IsFinite(jacobian)
    /\ RLeq(RNorm(1, JacobianClamp), jacobian)
    /\ RLeq(jacobian, R(JacobianClamp))

\* C21: the reconnection jacobian is -1 or a value of [1/20, 20]; a ratio
\* that is NaN, infinite or outside [1/20, 20] gives -1, and the spatial pass
\* then rejects the sample.
C21_JacobianBounded ==
    jpc \in {"branch", "done"} =>
        /\ jresult = MinusOne \/ WithinClamp(jresult)
        /\ ~WithinClamp(jratio) => jresult = MinusOne
        /\ WithinClamp(jratio) => jresult = jratio
        /\ (jpc = "done" /\ jresult = MinusOne) => jpath = "rejected"

\* A NaN ratio (zero cosines on both sides) has been rejected.
C21_Witness ==
    /\ jpc = "done"
    /\ IsNaN(jratio)
    /\ jgeometry.distance_to_light_at_center > 0
    /\ jgeometry.distance_to_light_at_neighbor > 0
    /\ jresult = MinusOne
    /\ jpath = "rejected"


(***************************************************************************)
(* The target function.                                                    *)
(***************************************************************************)
\* C22: the target function is never negative; it is 0 for a sample that is
\* neither a triangle nor an environment-map sample and 0 when the cosine
\* between the shading normal and the sample direction is <= 0, and in both
\* cases neither the BSDF is evaluated nor a shadow ray traced.
C22_TargetFunctionNonNegative ==
    /\ fresult >= 0
    /\ flocal.target_function >= 0
    /\ (fpc = "done" /\ (fin.kind = "none" \/ fin.dot <= 0)) =>
          (fresult = 0 /\ fcount.bsdf = 0 /\ fcount.rays = 0)

\* A back-facing environment-map sample has returned 0 from the
\* specialization with visibility.
C22_Witness ==
    /\ fpc = "done"
    /\ fin.withVisiblity
    /\ fin.kind = "envmap"
    /\ fin.dot < 0
    /\ fin.luminance > 0
    /\ fresult = 0
    /\ fcount = NoCounts


\* The score of the input of this evaluation without visibility, as the
\* specialization without visibility returns it.
ScoreWithoutVisibility ==
    TargetFunctionNoVisibility([kind |-> fin.kind], [cos |-> fin.dot, lum |-> fin.luminance])

\* C23: the target function with visibility is the target function without
\* visibility when the shadow ray is unoccluded and 0 when it is occluded; the
\* shadow ray is traced if and only if the score without visibility is not 0,
\* and at most once.
C23_VisibilityRefinesTargetFunction ==
    /\ fcount.rays <= 1
    /\ fpc = "done" =>
          /\ ~fin.withVisiblity => (fresult = ScoreWithoutVisibility /\ fcount.rays = 0)
          /\ fin.withVisiblity =>
                /\ fresult = (IF fin.occluded THEN 0 ELSE ScoreWithoutVisibility)
                /\ fcount.rays = 1 <=> ScoreWithoutVisibility # 0

\* An evaluation with visibility has traced its ray and found a sample with a
\* positive score occluded.
C23_Witness ==
    /\ fpc = "done"
    /\ fin.withVisiblity
    /\ fin.occluded
    /\ ScoreWithoutVisibility > 0
    /\ fcount.rays = 1
    /\ fresult = 0


(***************************************************************************)
(* Resampling the center pixel alone.                                      *)
(***************************************************************************)
\* C24: with no neighbor to reuse (only the center pixel is resampled) the
\* pass writes the center's input sample and UCW back unchanged, in every
\* bias-correction mode, whenever the input reservoir has UCW > 0 and a
\* positive cached target function.
C24_ResamplingSelfIsIdentity ==
    (/\ pc = "done"
     /\ cfg.reuse = 0
     /\ center_pixel_index \in DOMAIN input
     /\ RLess(Zero, input[center_pixel_index].UCW)
     /\ input[center_pixel_index].sample.target_function > 0) =>
        /\ output[center_pixel_index].sample = input[center_pixel_index].sample
        /\ output[center_pixel_index].UCW = input[center_pixel_index].UCW


(***************************************************************************)
(* The neighbor-index queries of one worker.                               *)
(***************************************************************************)
\* All the answers given for an ordinal, whoever asked.
AnswersFor(ordinal) == IF ordinal \in DOMAIN qanswers THEN qanswers[ordinal] ELSE {}

HostRenderContract ==
    /\ hostlast.branch = "launch" => ~hostlast.dirty_at_launch
    /\ hostlast.branch = "launch" /\ hostlast.dirty_at_entry => hostlast.reset
    /\ hostlast.reset => hostlast.launch_sample = 0 /\ ~hostlast.dirty_at_launch
    /\ hostlast.reported_done => hostlast.sample_at_report > 0
    /\ sample_number = 0 => ~RenderingDone
    /\ frame_in_flight /\ hostlast.branch = "launch" => ~hostlast.dirty_at_launch

\* The dirty flag is cleared by a reset only.
HostDirtyClearedByReset ==
    [][render_dirty /\ ~render_dirty' => hostlast'.reset /\ hostlast'.branch = "launch"]_vars

\* C26: whenever the render is marked dirty, the host loop calls
\* reset_render() before it queues the next frame: no frame is launched while
\* the dirty flag is set, the reset clears the flag and restarts from sample
\* 0, a render at sample 0 is never reported as done, and a dirty flag is
\* eventually followed by a reset.
C26_DirtyRenderIsReset ==
    /\ []HostRenderContract
    /\ HostDirtyClearedByReset
    /\ (render_dirty ~> ~render_dirty)

\* A render that ran, was marked dirty while its frame was in flight, and was
\* reset when the next frame was queued.
C26_Witness ==
    /\ hostlast.branch = "launch"
    /\ hostlast.reset
    /\ hostlast.sample_at_report > 0
    /\ frame_in_flight

(***************************************************************************)
(* Properties of the seeding.                                              *)
(***************************************************************************)
\* C27: within one frame whose random is not frozen, distinct pixel indices
\* are given distinct inputs to the seeding hash, the input being
\* (pixel_index + 1) * (sample_number + 1) * random_seed in 32-bit unsigned
\* arithmetic, and the same (pixel, sample number, seed) gives the same input.
C27_DistinctPixelsDistinctSeeds ==
    ~sframe.freeze_random =>
        \A p \in DOMAIN sinput : \A q \in DOMAIN sinput :
            /\ sinput[p] = SeedHashInput(p, sframe)
            /\ p # q => sinput[p] # sinput[q]

(***************************************************************************)
(* Properties of the neighbor the kernel remembers as selected.            *)
(***************************************************************************)
\* The loop of the kernel has run all its iterations.
CombineLoopOver == pc \in {"loop", "finish", "done"} /\ ~(neighbor < cfg.reuse + 1)

\* weight_sum of the reservoir at the end of the loop.
WeightSumAfterLoop == IF pc = "loop" THEN new_reservoir.weight_sum ELSE norm.weight_sum

\* The iterations of the loop that replaced the sample of the reservoir.
Replacements == {i \in 1..Len(log) : log[i].replaced}

\* C28: at the end of the combine loop, whenever weight_sum > 0,
\* selected_neighbor is the ordinal of a neighbor that was combined with a
\* strictly positive resampling weight and whose sample is the reservoir's
\* current sample, namely the last candidate for which the combine reported a
\* replacement; the initial value 0 is used by the normalization only if
\* ordinal 0 was selected that way.
C28_SelectedNeighborIsLastReplacement ==
    /\ (pc \in {"finish", "done"} /\ norm.visited # {}) => RLess(Zero, norm.weight_sum)
    /\ (CombineLoopOver /\ RLess(Zero, WeightSumAfterLoop)) =>
        /\ Replacements # {}
        /\ LET i == CHOOSE k \in Replacements : \A l \in Replacements : l <= k IN
           /\ log[i].neighbor = selected_neighbor
           /\ log[i].path = "combined"
           /\ RLess(Zero, log[i].w)
           /\ new_reservoir.sample.id = input[log[i].index].sample.id
           /\ new_reservoir.sample.kind = input[log[i].index].sample.kind

\* A pass that combined two neighbors with positive weights and kept the
\* sample of the first: the selected neighbor is ordinal 0 and not the last
\* neighbor combined.
C28_Witness ==
    /\ pc = "done"
    /\ RLess(Zero, norm.weight_sum)
    /\ Len(log) = 2
    /\ log[1].replaced /\ ~log[2].replaced
    /\ RLess(Zero, log[2].w)
    /\ selected_neighbor = 0

(***************************************************************************)
(* The neighbor ordinals of the loop, of the MIS weights and of the        *)
(* normalization.                                                          *)
(***************************************************************************)
\* The ordinals the kernel's resampling loop admitted: their M is in the
\* reservoir.
KernelAdmittedOrdinals == {log[i].neighbor : i \in {k \in 1..Len(log) : log[k].index # -1}}

\* In the kernel the loop, the MIS weights and the normalization go over the
\* same ordinals, and the 1/M denominator is the M of the reservoir before the
\* M-cap.
KernelOrdinalsAgree ==
    pc \in {"finish", "done"} =>
        /\ KernelAdmittedOrdinals = ValidOrdinals(cfg.reuse, idxOf)
        /\ norm.visited # {} =>
              {j \in norm.visited : idxOf[j] # -1} = KernelAdmittedOrdinals
        /\ (cfg.mode = RESTIR_DI_BIAS_CORRECTION_1_OVER_M /\ RLess(Zero, norm.weight_sum)) =>
              norm.denom = R(IF pc = "finish" THEN new_reservoir.M ELSE tail.preCapM)

\* The iterations of a normalization call that reached its sum.
NormalizationSummedOver == {i \in 1..Len(nlog) : nlog[i].index # -1 /\ nlog[i].admitted}

\* C29: within one worker, the neighbor ordinals admitted by the resampling
\* loop (those whose M is accumulated) are the ordinals the MIS weights and
\* the normalization sum over; in 1/M mode with weight_sum > 0 the
\* denominator of the normalization is the M of the reservoir before the
\* M-cap, that is the sum of M over the admitted ordinals.
C29_SameOrdinalsEverywhere ==
    /\ KernelOrdinalsAgree
    /\ (npc = "done" /\ RLess(Zero, ncfg.final_reservoir.weight_sum) /\ Len(nlog) > 0) =>
          /\ NormalizationSummedOver = {i \in 1..Len(nlog) : LoopAdmits(i)}
          /\ ncfg.mode = RESTIR_DI_BIAS_CORRECTION_1_OVER_M =>
                LET term(i) == IF LoopAdmits(i) THEN InputMOf(i) ELSE 0 IN
                nacc.denom = R(SumOverVisits(term, Len(nlog)))

(***************************************************************************)
(* The generalized balance heuristic as a partition of unity.              *)
(***************************************************************************)
\* The sum of the rationals w(j) over the ordinals of S.
RECURSIVE RSumOverOrdinals(_, _)
RSumOverOrdinals(w(_), S) ==
    IF S = {} THEN Zero
    ELSE LET j == CHOOSE k \in S : TRUE IN RAdd(w(j), RSumOverOrdinals(w, S \ {j}))

\* The weight get_spatial_reuse_resampling_MIS_weight returns for the sample
\* of the candidate of iteration i, were it asked for neighbor n.
MISWeightFor(i, n) ==
    GetSpatialReuseResamplingMISWeight(cfg.mode, cfg.biasVis, input[log[i].index], n,
                                       cfg.reuse, idxOf, input, scores, rays)

\* C30: for a fixed candidate sample and fixed admitted neighbors, the MIS-GBH
\* resampling weights for current_neighbor ranging over the admitted ordinals
\* each lie in [0, 1]; they sum to exactly 1 when the denominator of the
\* balance heuristic is nonzero and are all 0 when it is zero.
C30_BalanceHeuristicWeightsSumToOne ==
    (pc \in {"loop", "finish", "done"} /\ IsGBH(cfg.mode)) =>
        \A i \in 1..Len(log) :
            log[i].weighs =>
                LET x == input[log[i].index].sample
                    admitted == ValidOrdinals(cfg.reuse, idxOf)
                    term(j) == BalanceTerm(x, j)
                    denom == SumOverOrdinals(term, admitted)
                    w(n) == MISWeightFor(i, n)
                IN  /\ log[i].mis_weight = w(log[i].neighbor)
                    /\ \A n \in admitted : RLeq(Zero, w(n)) /\ RLeq(w(n), One)
                    /\ denom # 0 => RSumOverOrdinals(w, admitted) = One
                    /\ denom = 0 => \A n \in admitted : w(n) = Zero

\* A pass in the confidence variant weighed a candidate over two admitted
\* neighbors of different M, and its weight is neither 0 nor 1.
C30_Witness ==
    /\ pc = "done"
    /\ cfg.mode = RESTIR_DI_BIAS_CORRECTION_MIS_GBH_CONFIDENCE_WEIGHTS
    /\ Cardinality(ValidOrdinals(cfg.reuse, idxOf)) = 2
    /\ \E i \in 1..Len(log) :
          /\ log[i].weighs
          /\ RLess(Zero, log[i].mis_weight) /\ RLess(log[i].mis_weight, One)
          /\ input[idxOf[0]].M # input[idxOf[1]].M

=============================================================================
